---- MODULE Spec2Model ----
(***************************************************************************)
(* Completion & incentive ledger of the family-chores add-on.              *)
(*                                                                         *)
(* The store is the PostgreSQL schema (completions, balances,              *)
(* balance_transactions, tasks).  Every `await query(...)` of              *)
(* models/Completion.js is one autocommit statement on the pool, so each   *)
(* statement is one atomic step and the steps of concurrent callers        *)
(* interleave freely.  A statement may also reject (store unreachable):    *)
(* the async function then rejects without undoing its earlier statements. *)
(* Money is counted in cents, time in minutes.                             *)
(*                                                                         *)
(* Streaks (Completion.getStreakData / updateStreak) live in the table     *)
(* streaks; calendar days are day numbers since 1970-01-01, and the        *)
(* household's time zone is its offset from UTC in hours.  The schedule    *)
(* filter (utils/schedule.js) is a pure function of a task and a date.     *)
(***************************************************************************)
EXTENDS Integers, Sequences, FiniteSets, TLC

\* ------------------------------------------------------------------ bounds
MaxCalls == 2            \* calls (create + undo) begun in one behaviour
MaxTicks == 2            \* times the clock advances in one behaviour
TickMinutes == 5         \* minutes the clock advances at a time

MaxStreakCalls == 3      \* streak calls begun in one behaviour
MaxTasks == 1
MaxDay == 4              \* streak dates are the days 1..MaxDay
MaxCacheOps == 3         \* calls of cache functions in one behaviour
MaxCacheSeconds == 2     \* seconds the cache clock runs
MaxRequests == 2         \* requests to cached routes in one behaviour
MaxPending == 2          \* requests that await their route handler at a time
MaxAttempts == 32        \* page.goto calls of globalSetup in one behaviour

Callers == {"c1", "c2"}  \* concurrent requests
Users   == {"u1", "u2"}
Tasks   == {"t1"}
Dates   == {"d1", "d2"}
DollarValues == {0, 200} \* the values tasks.dollar_value takes, in cents
Routines == {"r1", "r2"}
Households == {"h1", "h2"}
Names == {"a", "b"}
Tokens == {"expired", "parent1", "child1", "parent2"}
TaskIds == 1..MaxTasks
Days == 1..MaxDay
TzOffsets == {-5, 0, 2}  \* household zones: hours east of UTC

\* --------------------------------------------------------- program constant
UNDO_WINDOW_MINUTES == 5

VARIABLES
  completions,           \* table completions: set of rows
  nextId,                \* next value of completions.id
  balances,              \* table balances: user -> [exists, current_balance]
  balance_transactions,  \* table balance_transactions, in insertion order
  tasks,                 \* table tasks: task -> dollar_value
  clock,                 \* wall clock / NOW(), minutes
  pc,                    \* caller -> the statement it executes next
  call,                  \* caller -> arguments and locals of its call
  calls,                 \* number of calls begun
  pre,                   \* history: caller -> store at the start of its call,
                         \*   dropped once another caller writes the store
  audit,                 \* history: completion id -> what was written for it
  streaks,               \* table streaks: <<user, routine>> -> row
  streakCalls,           \* number of streak calls begun
  tz,                    \* time zone of the process, hours east of UTC
  schedule,              \* column tasks.schedule: task -> schedule value
  fn,                    \* the last call of a pure function and its result
  taskRows,              \* table tasks as the task routes see it: set of rows
  nextTaskId,            \* next value of tasks.id
  http,                  \* the last request to a task route and its response
  task_assignments,      \* table task_assignments: set of rows
  cache,                 \* the Map of middleware/cache.js: entries in insertion order
  cacheClock,            \* Date.now() of the server process, milliseconds
  cacheCall,             \* the last call of a cache function and its result
  cacheSets,             \* history: the last set of each key that was not
                         \*   deleted or invalidated since
  requests,              \* requests that passed cacheMiddleware and await their response
  setup                  \* globalSetup: position, retries, attempts made

vars == <<completions, nextId, balances, balance_transactions, tasks, clock,
          pc, call, calls, pre, audit, streaks, streakCalls, tz, schedule, fn,
          taskRows, nextTaskId, http, task_assignments,
          cache, cacheClock, cacheCall, cacheSets, requests, setup>>

homehero == <<cache, cacheClock, cacheCall, cacheSets, requests, setup>>

web == <<taskRows, nextTaskId, http, task_assignments>>

misc == <<streakCalls, tz, schedule, fn, web, homehero>>

store == <<completions, nextId, balances, balance_transactions>>

\* ------------------------------------------------------------------ values
Ids == 1..MaxCalls

NoRow == [id |-> 0, task |-> "-", user |-> "-", date |-> "-", completedAt |-> 0]

\* SQL NULL / JavaScript null in a date position (days are numbered from 1)
Null == 0

\* (1000 * 60 * 60 * 24) milliseconds, counted in hours
HoursPerDay == 24

\* The weekday of day 0, 1970-01-01: a Thursday
EpochWeekday == 4

\* A row of streaks as INSERT ... VALUES ($1, $2, 0, 0) creates it
NewStreakRow == [exists |-> TRUE, current_count |-> 0, best_count |-> 0,
                 last_completion_date |-> Null]

NoStreakRow == [exists |-> FALSE, current_count |-> 0, best_count |-> 0,
                last_completion_date |-> Null]

\* { currentCount: 0, bestCount: 0, lastCompletionDate: null }
NoStreakData == [currentCount |-> 0, bestCount |-> 0, lastCompletionDate |-> Null]

StreakKeys == Users \X Routines

NoCall == [op |-> "none", task |-> "-", user |-> "-", date |-> "-", id |-> 0,
           completion |-> NoRow, dv |-> 0, now |-> 0, result |-> "none",
           routine |-> "-", day |-> Null, currentStreak |-> NoStreakData,
           prior |-> NoStreakRow, returned |-> 0,
           flag |-> FALSE, users |-> {}, before |-> {}]

\* The values of task.schedule: undefined/null, a value that is not an
\* array, and arrays of weekday numbers (0 = Sunday .. 6 = Saturday).
Schedule(kind, days) == [kind |-> kind, days |-> days]

NoSchedule == Schedule("absent", {})

Schedules == {NoSchedule, Schedule("notArray", {1, 3, 5}), Schedule("array", {}),
              Schedule("array", {1, 3, 5}), Schedule("array", {0, 6}),
              Schedule("array", 0..6)}

\* A date argument: a Date (an instant, in hours since the epoch) or a
\* date-only string 'YYYY-MM-DD' (a calendar day).
DateObject(hours) == [kind |-> "Date", value |-> hours]
DateString(day)   == [kind |-> "string", value |-> day]

\* req.user, and the value for no user
UserInfo(u, role, h) == [userId |-> u, role |-> role, householdId |-> h]
NoUser == UserInfo("-", "-", "-")

\* The Authorization header as its parts between spaces; << >> when absent.
Headers ==
  {<< >>, <<"Bearer">>, <<"Basic", "parent1">>, <<"Bearer", "parent1", "x">>}
    \cup {<<"Bearer", t>> : t \in Tokens}

Endpoints == {"POST /api/tasks", "GET /api/tasks", "GET /api/tasks/:id",
              "PUT /api/tasks/:id", "DELETE /api/tasks/:id",
              "GET /api/tasks/user/:userId"}

\* A request body: what validateTask says of it, and the name it carries.
\* assign: assignedUsers is given; users: its value.
Body(valid, name, assign, users) ==
  [valid |-> valid, name |-> name, assign |-> assign, users |-> users]

Bodies == {Body(FALSE, "a", FALSE, {})}
            \cup {Body(TRUE, n, FALSE, {}) : n \in Names}

\* Bodies that pass validation; one of them assigns the child of h1.
AssigningBodies == {Body(TRUE, "a", FALSE, {}), Body(TRUE, "b", TRUE, {"u2"})}

NoRequest == [endpoint |-> "-", header |-> << >>, id |-> Null, userId |-> "-",
              status |-> 0, body |-> {}]

NoFn == [op |-> "none", schedule |-> NoSchedule, date |-> DateString(Null),
         result |-> FALSE, day |-> Null, user |-> "-", rows |-> {}]

NoSnap == [valid |-> FALSE, completions |-> {}, balances |-> [u \in Users |-> 0],
           txns |-> <<>>]

Snap == [valid |-> TRUE, completions |-> completions,
         balances |-> [u \in Users |-> IF balances[u].exists
                                         THEN balances[u].current_balance ELSE 0],
         txns |-> balance_transactions]

NoAudit == [valueAt |-> 0, credited |-> 0, earned |-> 0, debited |-> 0,
            adjusted |-> 0, ok |-> FALSE]

\* A write by caller p drops the snapshots of the other callers.
Interfere(p) == [q \in Callers |-> IF q = p THEN pre[q] ELSE NoSnap]

\* ----------------------------------------------------------------- helpers
SameRowKey(a, b) == a.task = b.task /\ a.user = b.user /\ a.date = b.date

\* Mutant: the table without its uniqueness constraint.
HasCompletion_Off(t, u, d) == FALSE

\* UNIQUE(task_id, user_id, completion_date): the rows an INSERT collides with
HasCompletion(t, u, d) ==
  \E c \in completions : SameRowKey(c, [task |-> t, user |-> u, date |-> d])

\* Mutant: the lookup without its WHERE clause.
FindById_Any(id) ==
  IF completions # {}
    THEN CHOOSE c \in completions : TRUE
    ELSE NoRow

\* SELECT * FROM completions WHERE id = $1  (null when there is none)
FindById(id) ==
  IF \E c \in completions : c.id = id
    THEN CHOOSE c \in completions : c.id = id
    ELSE NoRow

\* Mutant: the window closes at exactly UNDO_WINDOW_MINUTES.
WindowExpired_Inclusive(now, completedAt) == now - completedAt >= UNDO_WINDOW_MINUTES

\* minutesElapsed > UNDO_WINDOW_MINUTES
WindowExpired(now, completedAt) == now - completedAt > UNDO_WINDOW_MINUTES

\* getBalance: the cached balance, 0 for a user without a row
Balance(u) == IF balances[u].exists THEN balances[u].current_balance ELSE 0

\* Mutant: the update overwrites the balance instead of adding to it.
AddToBalance_Set(u, amount) ==
  IF balances[u].exists
    THEN [balances EXCEPT ![u].current_balance = amount]
    ELSE balances

\* UPDATE balances SET current_balance = current_balance + $1 WHERE user_id = $2
AddToBalance(u, amount) ==
  IF balances[u].exists
    THEN [balances EXCEPT ![u].current_balance = @ + amount]
    ELSE balances

\* Mutant: the ensure step writes the zero balance over an existing row.
EnsureBalance_Reset(u) ==
  [balances EXCEPT ![u] = [exists |-> TRUE, current_balance |-> 0]]

\* INSERT INTO balances (user_id, current_balance) VALUES ($1, 0)
\*   ON CONFLICT (user_id) DO NOTHING
EnsureBalance(u) ==
  IF balances[u].exists
    THEN balances
    ELSE [balances EXCEPT ![u] = [exists |-> TRUE, current_balance |-> 0]]

\* INSERT INTO balance_transactions (user_id, amount, type, description)
TxnRow(u, amount, type, t) ==
  [user |-> u, amount |-> amount, type |-> type, description |-> t]

\* Mutant: the statement keeps one row per log, writing over the last one.
InsertTransaction_Replace(row) ==
  IF balance_transactions = <<>>
    THEN <<row>>
    ELSE [balance_transactions EXCEPT ![Len(balance_transactions)] = row]

\* The log after INSERT INTO balance_transactions ... VALUES (...): one more
\* row at the end; no statement of the model updates or deletes a row.
InsertTransaction(row) == Append(balance_transactions, row)

Finish(p, res) ==
  /\ pc' = [pc EXCEPT ![p] = "done"]
  /\ call' = [call EXCEPT ![p].result = res]

\* ------------------------------------------------------ middleware/cache.js
\* A string is the sequence of its symbols: the words and separators the
\* code writes are one symbol each, an id is written digit by digit.
DashboardUsers == {<<"1">>, <<"1", "2">>, <<"2">>}

CacheData == {"x", "y"}

\* undefined where an id is expected
Undefined == <<"undefined">>

\* null where cached data is expected
NoData == "null"

MsPerSecond == 1000

TTL == [DASHBOARD |-> 30, USER_LIST |-> 60, FAMILY_DASHBOARD |-> 30]

\* The parameter names in the order of String.localeCompare
ParamNames == <<"householdId", "userId">>

ParamRank(k) == CHOOSE i \in 1..Len(ParamNames) : ParamNames[i] = k

RECURSIVE JoinParams(_)
\* .map(([k, v]) => `${k}:${v}`).join('|')
JoinParams(entries) ==
  IF entries = << >> THEN << >>
  ELSE <<entries[1][1], ":">> \o entries[1][2]
         \o (IF Len(entries) = 1 THEN << >> ELSE <<"|">> \o JoinParams(Tail(entries)))

\* generateKey(prefix, params); params are the entries <<name, value>> of
\* the object.
GenerateKey(prefix, params) ==
  LET kept == SelectSeq(params, LAMBDA e : e[2] # Undefined)
      sorted == SortSeq(kept, LAMBDA a, b : ParamRank(a[1]) < ParamRank(b[1]))
      paramStr == JoinParams(sorted)
  IN  IF paramStr # << >> THEN <<prefix, ":">> \o paramStr ELSE <<prefix>>

\* Mutant: only the key that equals the prefix matches.
StartsWith_Equal(key, prefix) == key = prefix

\* key.startsWith(prefix)
StartsWith(key, prefix) ==
  Len(prefix) <= Len(key) /\ SubSeq(key, 1, Len(prefix)) = prefix

CacheKeys(c) == {c[i].key : i \in 1..Len(c)}

NoEntry == [key |-> << >>, data |-> NoData, expiry |-> 0]

\* cache.get(key) of the Map
MapGet(c, key) ==
  IF key \in CacheKeys(c) THEN c[CHOOSE i \in 1..Len(c) : c[i].key = key] ELSE NoEntry

\* cache.set(key, entry) of the Map: a known key keeps its position
MapSet(c, entry) ==
  IF entry.key \in CacheKeys(c)
    THEN [i \in 1..Len(c) |-> IF c[i].key = entry.key THEN entry ELSE c[i]]
    ELSE Append(c, entry)

\* cache.delete(key) of the Map
MapDelete(c, key) == SelectSeq(c, LAMBDA e : e.key # key)

\* Mutant: an entry expires at its expiry time already.
Expired_AtExpiry(now, entry) == now >= entry.expiry

\* Date.now() > entry.expiry
Expired(now, entry) == now > entry.expiry

\* What a cached route saw and answered
NoReq == [mw |-> "-", method |-> "-", userId |-> Undefined, householdId |-> Undefined,
          hit |-> FALSE, status |-> 0]

NoCacheCall == [op |-> "none", key |-> << >>, result |-> NoData, at |-> 0,
                before |-> << >>, n |-> 0, req |-> NoReq]

NoSetup == [pc |-> "goto", retries |-> 0, attempts |-> 0]

\* The server after the sets at time 0 that fill the Map as one of caches
InitHomeheroWith(caches) ==
  /\ cache \in caches
  /\ cacheClock = 0
  /\ cacheCall = NoCacheCall
  /\ cacheSets = {[key |-> cache[i].key, data |-> cache[i].data, at |-> 0,
                    ttl |-> cache[i].expiry \div MsPerSecond] : i \in 1..Len(cache)}
  /\ requests = {}
  /\ setup = NoSetup

InitHomehero == InitHomeheroWith({<< >>})

\* -------------------------------------------------------------------- Init
InitWith(values, zones, schedules) ==
  /\ completions = {}
  /\ nextId = 1
  /\ balances = [u \in Users |-> [exists |-> FALSE, current_balance |-> 0]]
  /\ balance_transactions = <<>>
  /\ tasks \in [Tasks -> values]
  /\ clock = 0
  /\ pc = [p \in Callers |-> "idle"]
  /\ call = [p \in Callers |-> NoCall]
  /\ calls = 0
  /\ pre = [p \in Callers |-> NoSnap]
  /\ audit = [i \in Ids |-> NoAudit]
  /\ streaks = [k \in StreakKeys |-> NoStreakRow]
  /\ streakCalls = 0
  /\ tz \in zones
  /\ schedule \in [Tasks -> schedules]
  /\ fn = NoFn
  /\ taskRows = {}
  /\ nextTaskId = 1
  /\ http = NoRequest
  /\ task_assignments = {}
  /\ InitHomehero

\* The tables and history after create("t1", "u1", "d1") has completed and
\* credited a task worth v.
Credited(v) ==
  /\ completions = {[id |-> 1, task |-> "t1", user |-> "u1", date |-> "d1",
                      completedAt |-> 0]}
  /\ nextId = 2
  /\ balances = [u \in Users |-> IF u = "u1"
                                   THEN [exists |-> TRUE, current_balance |-> v]
                                   ELSE [exists |-> FALSE, current_balance |-> 0]]
  /\ balance_transactions = <<TxnRow("u1", v, "earned", "t1")>>
  /\ tasks = [t \in Tasks |-> v]
  /\ audit = [i \in Ids |-> IF i = 1
                               THEN [NoAudit EXCEPT !.valueAt = v, !.credited = v,
                                                    !.earned = v, !.ok = TRUE]
                               ELSE NoAudit]

\* The household of Init after one credited completion, all callers idle.
InitCredited ==
  /\ \E v \in DollarValues \ {0} : Credited(v)
  /\ clock = 0
  /\ pc = [p \in Callers |-> "idle"]
  /\ call = [p \in Callers |-> NoCall]
  /\ calls = 0
  /\ pre = [p \in Callers |-> NoSnap]
  /\ streaks = [k \in StreakKeys |-> NoStreakRow]
  /\ streakCalls = 0
  /\ tz = 0
  /\ schedule = [t \in Tasks |-> Schedule("array", {})]
  /\ fn = NoFn
  /\ taskRows = {}
  /\ nextTaskId = 1
  /\ http = NoRequest
  /\ task_assignments = {}
  /\ InitHomehero

\* The task tables a household can have: two tasks, each with any
\* schedule or not there, each assigned to any of two users.
TaskTables(schedules) ==
  {rows \in SUBSET {[id |-> i, household |-> "h1", name |-> "a", schedule |-> sc] :
                       i \in {1, 2}, sc \in schedules} :
     \A r1, r2 \in rows : r1.id = r2.id => r1 = r2}

InitTablesOf(zones, schedules, caches) ==
  /\ completions = {}
  /\ nextId = 1
  /\ balances = [u \in Users |-> [exists |-> FALSE, current_balance |-> 0]]
  /\ balance_transactions = <<>>
  /\ tasks = [t \in Tasks |-> 0]
  /\ clock = 0
  /\ pc = [p \in Callers |-> "idle"]
  /\ call = [p \in Callers |-> NoCall]
  /\ calls = 0
  /\ pre = [p \in Callers |-> NoSnap]
  /\ audit = [i \in Ids |-> NoAudit]
  /\ streaks = [k \in StreakKeys |-> NoStreakRow]
  /\ streakCalls = 0
  /\ tz \in zones
  /\ schedule = [t \in Tasks |-> Schedule("array", {})]
  /\ fn = NoFn
  /\ taskRows \in TaskTables(schedules)
  /\ nextTaskId = 3
  /\ http = NoRequest
  /\ task_assignments \in SUBSET {[task |-> t.id, user |-> "u1"] : t \in taskRows}
  /\ InitHomeheroWith(caches)

InitTablesWith(zones, schedules) == InitTablesOf(zones, schedules, {<< >>})

InitTables == InitTablesWith(TzOffsets, Schedules)

\* The same in UTC with tasks that keep the default schedule.
InitAssigned == InitTablesWith({0}, {Schedule("array", {})})

\* A household in UTC whose tasks keep the column default, schedule '[]'
Init == InitWith(DollarValues, {0}, {Schedule("array", {})})

\* Any household zone, tasks on the column defaults (dollar_value 0, schedule '[]')
InitZoned == InitWith({0}, TzOffsets, {Schedule("array", {})})

\* Any household zone, any schedule
InitScheduled == InitWith(DollarValues, TzOffsets, Schedules)

\* new Date('YYYY-MM-DD'): midnight UTC of that day, as an instant
ParseDate(day) == HoursPerDay * day

\* ------------------------------------------- utils/schedule.js (pure)
\* new Date(date) for a date-only string: midnight UTC of that day
CheckDate(date) ==
  IF date.kind = "Date" THEN date.value ELSE ParseDate(date.value)

\* Date.prototype.getDay: the weekday, 0 = Sunday .. 6 = Saturday, of the
\* instant's calendar day in the time zone of the process
GetDay(instant) == (((instant + tz) \div HoursPerDay) + EpochWeekday) % 7

\* isScheduledForDate(task, date)
IsScheduledForDate(task, date) ==
  IF task.schedule.kind = "absent" \/ task.schedule.kind # "array"
       \/ task.schedule.days = {}
    THEN TRUE
    ELSE LET checkDate == CheckDate(date)
             dayOfWeek == GetDay(checkDate)
         IN dayOfWeek \in task.schedule.days

\* One evaluation of isScheduledForDate; it reads and writes no state of
\* the program (fn records the arguments and the value returned).
CallIsScheduledForDate(task, date) ==
  /\ fn' = [op |-> "isScheduledForDate", schedule |-> task.schedule, date |-> date,
            result |-> IsScheduledForDate(task, date), day |-> Null,
            user |-> "-", rows |-> {}]
  /\ UNCHANGED <<store, tasks, clock, pc, call, calls, pre, audit, streaks,
                 streakCalls, tz, schedule, web, homehero>>

\* The calendar day a completion date 'YYYY-MM-DD' names
DayOfDate(d) == IF d = "d1" THEN 1 ELSE 2

\* isScheduledForDate for the stored task t and the completion date d
OnSchedule(t, d) == IsScheduledForDate([schedule |-> schedule[t]], DateString(DayOfDate(d)))

\* ------------------------------------------------------- Completion.create
BeginCreate(p, t, u, d) ==
  /\ pc[p] = "idle"
  /\ calls < MaxCalls
  /\ calls' = calls + 1
  /\ pc' = [pc EXCEPT ![p] = "c_insert"]
  /\ call' = [call EXCEPT ![p] = [NoCall EXCEPT !.op = "create", !.task = t,
                                    !.user = u, !.date = d]]
  /\ pre' = [pre EXCEPT ![p] = Snap]
  /\ UNCHANGED <<store, tasks, clock, audit, streaks, misc>>

\* Mutant: the insert skips a duplicate silently (ON CONFLICT DO NOTHING).
CreateInsert_IgnoreConflict(p) ==
  /\ pc[p] = "c_insert"
  /\ IF HasCompletion(call[p].task, call[p].user, call[p].date)
       THEN /\ pc' = [pc EXCEPT ![p] = "c_task"]
            /\ call' = [call EXCEPT ![p].completion =
                           CHOOSE c \in completions : SameRowKey(c, call[p])]
            /\ UNCHANGED <<store, pre, audit>>
       ELSE LET row == [id |-> nextId, task |-> call[p].task, user |-> call[p].user,
                        date |-> call[p].date, completedAt |-> clock]
            IN /\ completions' = completions \cup {row}
               /\ nextId' = nextId + 1
               /\ call' = [call EXCEPT ![p].completion = row]
               /\ pc' = [pc EXCEPT ![p] = "c_task"]
               /\ pre' = Interfere(p)
               /\ audit' = [audit EXCEPT ![nextId].valueAt = tasks[call[p].task]]
               /\ UNCHANGED <<balances, balance_transactions>>
  /\ UNCHANGED <<tasks, clock, calls, streaks, misc>>

\* Mutant: create records a completion only on a day the task is scheduled.
CreateInsert_OnlyScheduled(p) ==
  /\ pc[p] = "c_insert"
  /\ IF HasCompletion(call[p].task, call[p].user, call[p].date)
       THEN /\ Finish(p, "ConflictError")
            /\ UNCHANGED <<store, pre, audit>>
       ELSE IF ~OnSchedule(call[p].task, call[p].date)
       THEN /\ Finish(p, "NotScheduledError")
            /\ UNCHANGED <<store, pre, audit>>
       ELSE LET row == [id |-> nextId, task |-> call[p].task, user |-> call[p].user,
                        date |-> call[p].date, completedAt |-> clock]
            IN /\ completions' = completions \cup {row}
               /\ nextId' = nextId + 1
               /\ call' = [call EXCEPT ![p].completion = row]
               /\ pc' = [pc EXCEPT ![p] = "c_task"]
               /\ pre' = Interfere(p)
               /\ audit' = [audit EXCEPT ![nextId].valueAt = tasks[call[p].task]]
               /\ UNCHANGED <<balances, balance_transactions>>
  /\ UNCHANGED <<tasks, clock, calls, streaks, misc>>

\* INSERT INTO completions ... RETURNING *   (unique violation rejects the call)
CreateInsert(p) ==
  /\ pc[p] = "c_insert"
  /\ IF HasCompletion(call[p].task, call[p].user, call[p].date)
       THEN /\ Finish(p, "ConflictError")
            /\ UNCHANGED <<store, pre, audit>>
       ELSE LET row == [id |-> nextId, task |-> call[p].task, user |-> call[p].user,
                        date |-> call[p].date, completedAt |-> clock]
            IN /\ completions' = completions \cup {row}
               /\ nextId' = nextId + 1
               /\ call' = [call EXCEPT ![p].completion = row]
               /\ pc' = [pc EXCEPT ![p] = "c_task"]
               /\ pre' = Interfere(p)
               /\ audit' = [audit EXCEPT ![nextId].valueAt = tasks[call[p].task]]
               /\ UNCHANGED <<balances, balance_transactions>>
  /\ UNCHANGED <<tasks, clock, calls, streaks, misc>>

\* updateBalance: SELECT dollar_value, name FROM tasks; return unless > 0
UpdateBalanceSelect(p) ==
  /\ pc[p] = "c_task"
  /\ LET dollarValue == tasks[call[p].task]
     IN IF dollarValue <= 0
          THEN /\ pc' = [pc EXCEPT ![p] = "done"]
               /\ call' = [call EXCEPT ![p].dv = dollarValue, ![p].result = "ok"]
               /\ audit' = [audit EXCEPT ![call[p].completion.id].ok = TRUE]
          ELSE /\ pc' = [pc EXCEPT ![p] = "c_ensure"]
               /\ call' = [call EXCEPT ![p].dv = dollarValue]
               /\ UNCHANGED audit
  /\ UNCHANGED <<store, tasks, clock, calls, pre, streaks, misc>>

\* INSERT INTO balances (user_id, current_balance) VALUES ($1, 0) ON CONFLICT DO NOTHING
UpdateBalanceEnsure(p) ==
  /\ pc[p] = "c_ensure"
  /\ balances' = EnsureBalance(call[p].user)
  /\ pre' = IF balances' = balances THEN pre ELSE Interfere(p)
  /\ pc' = [pc EXCEPT ![p] = "c_credit"]
  /\ UNCHANGED <<completions, nextId, balance_transactions, tasks, clock, call,
                 calls, audit, streaks, misc>>

\* UPDATE balances SET current_balance = current_balance + $1
UpdateBalanceCredit(p) ==
  /\ pc[p] = "c_credit"
  /\ balances' = AddToBalance(call[p].user, call[p].dv)
  /\ audit' = [audit EXCEPT ![call[p].completion.id].credited =
                 @ + (IF balances[call[p].user].exists THEN call[p].dv ELSE 0)]
  /\ pre' = Interfere(p)
  /\ pc' = [pc EXCEPT ![p] = "c_txn"]
  /\ UNCHANGED <<completions, nextId, balance_transactions, tasks, clock, call, calls,
                 streaks, misc>>

\* INSERT INTO balance_transactions ... 'earned'
UpdateBalanceRecord(p) ==
  /\ pc[p] = "c_txn"
  /\ balance_transactions' = InsertTransaction(
        TxnRow(call[p].user, call[p].dv, "earned", call[p].task))
  /\ audit' = [audit EXCEPT ![call[p].completion.id].earned = @ + call[p].dv,
                            ![call[p].completion.id].ok = TRUE]
  /\ pre' = Interfere(p)
  /\ Finish(p, "ok")
  /\ UNCHANGED <<completions, nextId, balances, tasks, clock, calls, streaks, misc>>

\* --------------------------------------------------------- Completion.undo
BeginUndo(p, id) ==
  /\ pc[p] = "idle"
  /\ calls < MaxCalls
  /\ calls' = calls + 1
  /\ pc' = [pc EXCEPT ![p] = "u_find"]
  /\ call' = [call EXCEPT ![p] = [NoCall EXCEPT !.op = "undo", !.id = id]]
  /\ pre' = [pre EXCEPT ![p] = Snap]
  /\ UNCHANGED <<store, tasks, clock, audit, streaks, misc>>

\* Completion.findById(id); not found -> { success: false }
UndoFind(p) ==
  /\ pc[p] = "u_find"
  /\ LET completion == FindById(call[p].id)
     IN IF completion = NoRow
          THEN Finish(p, "NotFoundError")
          ELSE /\ pc' = [pc EXCEPT ![p] = "u_check"]
               /\ call' = [call EXCEPT ![p].completion = completion]
  /\ UNCHANGED <<store, tasks, clock, calls, pre, audit, streaks, misc>>

\* now = new Date(); minutesElapsed > UNDO_WINDOW_MINUTES -> { success: false }
UndoCheck(p) ==
  /\ pc[p] = "u_check"
  /\ IF WindowExpired(clock, call[p].completion.completedAt)
       THEN /\ pc' = [pc EXCEPT ![p] = "done"]
            /\ call' = [call EXCEPT ![p].now = clock, ![p].result = "ExpiredError"]
       ELSE /\ pc' = [pc EXCEPT ![p] = "u_task"]
            /\ call' = [call EXCEPT ![p].now = clock]
  /\ UNCHANGED <<store, tasks, clock, calls, pre, audit, streaks, misc>>

\* SELECT dollar_value, name FROM tasks WHERE id = completion.taskId
UndoSelect(p) ==
  /\ pc[p] = "u_task"
  /\ LET dollarValue == tasks[call[p].completion.task]
     IN /\ call' = [call EXCEPT ![p].dv = dollarValue]
        /\ pc' = [pc EXCEPT ![p] = IF dollarValue > 0 THEN "u_debit" ELSE "u_delete"]
  /\ UNCHANGED <<store, tasks, clock, calls, pre, audit, streaks, misc>>

\* UPDATE balances SET current_balance = current_balance - $1
UndoDebit(p) ==
  /\ pc[p] = "u_debit"
  /\ balances' = AddToBalance(call[p].completion.user, -call[p].dv)
  /\ audit' = [audit EXCEPT ![call[p].id].debited =
                 @ + (IF balances[call[p].completion.user].exists THEN call[p].dv ELSE 0)]
  /\ pre' = Interfere(p)
  /\ pc' = [pc EXCEPT ![p] = "u_txn"]
  /\ UNCHANGED <<completions, nextId, balance_transactions, tasks, clock, call, calls,
                 streaks, misc>>

\* INSERT INTO balance_transactions ... 'adjustment'
UndoRecord(p) ==
  /\ pc[p] = "u_txn"
  /\ balance_transactions' = InsertTransaction(
        TxnRow(call[p].completion.user, -call[p].dv, "adjustment",
               call[p].completion.task))
  /\ audit' = [audit EXCEPT ![call[p].id].adjusted = @ + call[p].dv]
  /\ pre' = Interfere(p)
  /\ pc' = [pc EXCEPT ![p] = "u_delete"]
  /\ UNCHANGED <<completions, nextId, balances, tasks, clock, call, calls,
                 streaks, misc>>

\* Mutant: the undo also takes the completion back out of the user's streaks.
UndoDelete_RevertStreak(p) ==
  /\ pc[p] = "u_delete"
  /\ completions' = {c \in completions : c.id # call[p].id}
  /\ streaks' = [k \in StreakKeys |->
                  IF k[1] = call[p].completion.user /\ streaks[k].current_count > 0
                    THEN [streaks[k] EXCEPT !.current_count = @ - 1]
                    ELSE streaks[k]]
  /\ pre' = Interfere(p)
  /\ Finish(p, "ok")
  /\ UNCHANGED <<nextId, balances, balance_transactions, tasks, clock, calls, audit,
                 misc>>

\* DELETE FROM completions WHERE id = $1; return { success: true }
UndoDelete(p) ==
  /\ pc[p] = "u_delete"
  /\ completions' = {c \in completions : c.id # call[p].id}
  /\ pre' = Interfere(p)
  /\ Finish(p, "ok")
  /\ UNCHANGED <<nextId, balances, balance_transactions, tasks, clock, calls, audit,
                 streaks, misc>>

\* ---------------------------------------------------- Completion.canUndo
\* Mutant: the last minute of the window is refused.
WithinWindow_Strict(now, completedAt) == now - completedAt < UNDO_WINDOW_MINUTES

\* return minutesElapsed <= UNDO_WINDOW_MINUTES
WithinWindow(now, completedAt) == now - completedAt <= UNDO_WINDOW_MINUTES

BeginCanUndo(p, id) ==
  /\ pc[p] = "idle"
  /\ pc' = [pc EXCEPT ![p] = "k_find"]
  /\ call' = [call EXCEPT ![p] = [NoCall EXCEPT !.op = "canUndo", !.id = id]]
  /\ pre' = [pre EXCEPT ![p] = Snap]
  /\ UNCHANGED <<store, tasks, clock, calls, audit, streaks, misc>>

\* const completion = await Completion.findById(id);
\* if (!completion) return false
CanUndoFind(p) ==
  /\ pc[p] = "k_find"
  /\ LET completion == FindById(call[p].id)
     IN IF completion = NoRow
          THEN /\ pc' = [pc EXCEPT ![p] = "done"]
               /\ call' = [call EXCEPT ![p].flag = FALSE, ![p].result = "ok"]
          ELSE /\ pc' = [pc EXCEPT ![p] = "k_check"]
               /\ call' = [call EXCEPT ![p].completion = completion]
  /\ UNCHANGED <<store, tasks, clock, calls, pre, audit, streaks, misc>>

\* const now = new Date(); ... return minutesElapsed <= UNDO_WINDOW_MINUTES
CanUndoCheck(p) ==
  /\ pc[p] = "k_check"
  /\ pc' = [pc EXCEPT ![p] = "done"]
  /\ call' = [call EXCEPT ![p].now = clock, ![p].result = "ok",
       ![p].flag = WithinWindow(clock, call[p].completion.completedAt)]
  /\ UNCHANGED <<store, tasks, clock, calls, pre, audit, streaks, misc>>

\* ------------------------------------------------- Completion.getBalance
BeginGetBalance(p, u) ==
  /\ pc[p] = "idle"
  /\ pc' = [pc EXCEPT ![p] = "b_ensure"]
  /\ call' = [call EXCEPT ![p] = [NoCall EXCEPT !.op = "getBalance", !.user = u]]
  /\ pre' = [pre EXCEPT ![p] = Snap]
  /\ UNCHANGED <<store, tasks, clock, calls, audit, streaks, misc>>

\* INSERT INTO balances (user_id, current_balance) VALUES ($1, 0) ON CONFLICT DO NOTHING
GetBalanceEnsure(p) ==
  /\ pc[p] = "b_ensure"
  /\ balances' = EnsureBalance(call[p].user)
  /\ pre' = IF balances' = balances THEN pre ELSE Interfere(p)
  /\ pc' = [pc EXCEPT ![p] = "b_select"]
  /\ UNCHANGED <<completions, nextId, balance_transactions, tasks, clock, call,
                 calls, audit, streaks, misc>>

\* SELECT current_balance FROM balances WHERE user_id = $1;
\* return parseFloat(result.rows[0]?.current_balance) || 0
GetBalanceSelect(p) ==
  /\ pc[p] = "b_select"
  /\ pc' = [pc EXCEPT ![p] = "done"]
  /\ call' = [call EXCEPT ![p].returned = Balance(call[p].user), ![p].result = "ok"]
  /\ UNCHANGED <<store, tasks, clock, calls, pre, audit, streaks, misc>>

\* ------------------------------------------------ Completion.isCompleted
\* Mutant: the lookup matches on task and user alone.
FindByKey_AnyDate(t, u, d) ==
  IF \E c \in completions : c.task = t /\ c.user = u
    THEN CHOOSE c \in completions : c.task = t /\ c.user = u
    ELSE NoRow

\* SELECT * FROM completions WHERE task_id = $1 AND user_id = $2
\*   AND completion_date = $3 LIMIT 1; null when there is no row
FindByKey(t, u, d) ==
  IF \E c \in completions : c.task = t /\ c.user = u /\ c.date = d
    THEN CHOOSE c \in completions : c.task = t /\ c.user = u /\ c.date = d
    ELSE NoRow

BeginIsCompleted(p, t, u, d) ==
  /\ pc[p] = "idle"
  /\ pc' = [pc EXCEPT ![p] = "i_select"]
  /\ call' = [call EXCEPT ![p] = [NoCall EXCEPT !.op = "isCompleted", !.task = t,
                                    !.user = u, !.date = d]]
  /\ pre' = [pre EXCEPT ![p] = Snap]
  /\ UNCHANGED <<store, tasks, clock, calls, audit, streaks, misc>>

IsCompletedSelect(p) ==
  /\ pc[p] = "i_select"
  /\ pc' = [pc EXCEPT ![p] = "done"]
  /\ call' = [call EXCEPT
       ![p].completion = FindByKey(call[p].task, call[p].user, call[p].date),
       ![p].result = "ok"]
  /\ UNCHANGED <<store, tasks, clock, calls, pre, audit, streaks, misc>>

\* ------------------------------------------ getStreakData / updateStreak
\* date instanceof Date ? date.toISOString().split('T')[0] : date
\* (the UTC calendar day of an instant, a date string as it is)
CompletionDate(date) ==
  IF date.kind = "Date" THEN date.value \div HoursPerDay ELSE date.value

\* const completionDate = date instanceof Date
\*   ? date.toISOString().split('T')[0] : date   (create, isCompleted)
CallCompletionDate(date) ==
  /\ fn' = [op |-> "completionDate", schedule |-> NoSchedule, date |-> date,
            result |-> FALSE, day |-> CompletionDate(date), user |-> "-",
            rows |-> {}]
  /\ UNCHANGED <<store, tasks, clock, pc, call, calls, pre, audit, streaks,
                 streakCalls, tz, schedule, web, homehero>>

\* A DATE column as the query hands it to the program: a Date at midnight
\* of that day in the time zone of the process (null stays null)
ReadDate(day) == IF day = Null THEN Null ELSE HoursPerDay * day - tz

\* getStreakData, lines 256-265: a selected row (or none) as the object returned
RowData(row) ==
  IF ~row.exists
    THEN NoStreakData
    ELSE [currentCount |-> row.current_count, bestCount |-> row.best_count,
          lastCompletionDate |-> ReadDate(row.last_completion_date)]

\* SELECT ... FROM streaks WHERE user_id = $1 AND routine_id = $2
StreakData(u, r) == RowData(streaks[<<u, r>>])

\* Math.floor((currentDate - lastDate) / (1000 * 60 * 60 * 24))
DaysDiff(completionDate, lastCompletionDate) ==
  (ParseDate(completionDate) - lastCompletionDate) \div HoursPerDay

\* updateStreak, lines 283-298
NewCount(currentStreak, completionDate) ==
  IF currentStreak.lastCompletionDate = Null
    THEN 1
    ELSE LET daysDiff == DaysDiff(completionDate, currentStreak.lastCompletionDate)
         IN IF daysDiff = 1 THEN currentStreak.currentCount + 1
            ELSE IF daysDiff = 0 THEN currentStreak.currentCount
            ELSE 1

\* Mutant: the best count follows the current count.
NewBest_Follow(newCount, bestCount) == newCount

\* Mutant: the best count is written back as it was read.
NewBest_Keep(newCount, bestCount) == bestCount

\* Math.max(newCount, currentStreak.bestCount)
NewBest(newCount, bestCount) == IF newCount > bestCount THEN newCount ELSE bestCount

\* UPDATE streaks SET current_count = $1, best_count = $2,
\*   last_completion_date = $3 WHERE user_id = $4 AND routine_id = $5
UpdatedStreakRow(currentStreak, completionDate) ==
  LET newCount == NewCount(currentStreak, completionDate)
  IN [exists |-> TRUE, current_count |-> newCount,
      best_count |-> NewBest(newCount, currentStreak.bestCount),
      last_completion_date |-> completionDate]

BeginStreakCall(p, op, u, r, date) ==
  /\ pc[p] = "idle"
  /\ streakCalls < MaxStreakCalls
  /\ streakCalls' = streakCalls + 1
  /\ pc' = [pc EXCEPT ![p] = "s_ensure"]
  /\ call' = [call EXCEPT ![p] = [NoCall EXCEPT !.op = op, !.user = u,
                                    !.routine = r, !.day = CompletionDate(date),
                                    !.prior = streaks[<<u, r>>]]]
  /\ UNCHANGED <<store, tasks, clock, calls, pre, audit, streaks, tz, schedule, fn,
                 web, homehero>>

BeginGetStreakData(p, u, r) == BeginStreakCall(p, "getStreakData", u, r, DateString(Null))

BeginUpdateStreak(p, u, r, date) == BeginStreakCall(p, "updateStreak", u, r, date)

\* INSERT INTO streaks ... VALUES ($1, $2, 0, 0) ON CONFLICT DO NOTHING
GetStreakDataEnsure(p) ==
  /\ pc[p] = "s_ensure"
  /\ LET k == <<call[p].user, call[p].routine>>
     IN streaks' = IF streaks[k].exists THEN streaks
                   ELSE [streaks EXCEPT ![k] = NewStreakRow]
  /\ pc' = [pc EXCEPT ![p] = "s_select"]
  /\ UNCHANGED <<store, tasks, clock, call, calls, pre, audit, misc>>

\* SELECT current_count, best_count, last_completion_date FROM streaks;
\* getStreakData returns here, updateStreak goes on with what it read
GetStreakDataSelect(p) ==
  /\ pc[p] = "s_select"
  /\ LET currentStreak == StreakData(call[p].user, call[p].routine)
     IN IF call[p].op = "getStreakData"
          THEN /\ pc' = [pc EXCEPT ![p] = "done"]
               /\ call' = [call EXCEPT ![p].currentStreak = currentStreak,
                                       ![p].result = "ok"]
          ELSE /\ pc' = [pc EXCEPT ![p] = "s_update"]
               /\ call' = [call EXCEPT ![p].currentStreak = currentStreak]
  /\ UNCHANGED <<store, tasks, clock, calls, pre, audit, streaks, misc>>

\* UPDATE streaks SET ... WHERE user_id = $4 AND routine_id = $5; return
UpdateStreakWrite(p) ==
  /\ pc[p] = "s_update"
  /\ LET k == <<call[p].user, call[p].routine>>
     IN streaks' = IF streaks[k].exists
                     THEN [streaks EXCEPT ![k] =
                             UpdatedStreakRow(call[p].currentStreak, call[p].day)]
                     ELSE streaks
  /\ Finish(p, "ok")
  /\ UNCHANGED <<store, tasks, clock, calls, pre, audit, misc>>

\* ------------------------------------------ Completion.getTotalStreakCount
RECURSIVE SumCurrentCount(_)
\* SUM(current_count) over the streak rows with the keys in K.
SumCurrentCount(K) ==
  IF K = {} THEN 0
  ELSE LET k == CHOOSE x \in K : TRUE
       IN streaks[k].current_count + SumCurrentCount(K \ {k})

\* Mutant: the query has no WHERE clause.
TotalStreak_AllUsers(u) ==
  SumCurrentCount({k \in StreakKeys : streaks[k].exists})

\* SELECT COALESCE(SUM(current_count), 0) FROM streaks WHERE user_id = $1
TotalStreak(u) ==
  SumCurrentCount({k \in StreakKeys : k[1] = u /\ streaks[k].exists})

BeginGetTotalStreakCount(p, u) ==
  /\ pc[p] = "idle"
  /\ pc' = [pc EXCEPT ![p] = "t_select"]
  /\ call' = [call EXCEPT ![p] = [NoCall EXCEPT !.op = "getTotalStreakCount",
                                    !.user = u]]
  /\ UNCHANGED <<store, tasks, clock, calls, pre, audit, streaks, misc>>

\* return parseInt(result.rows[0].total_streak) || 0
GetTotalStreakCountSelect(p) ==
  /\ pc[p] = "t_select"
  /\ pc' = [pc EXCEPT ![p] = "done"]
  /\ call' = [call EXCEPT ![p].returned = TotalStreak(call[p].user),
                          ![p].result = "ok"]
  /\ UNCHANGED <<store, tasks, clock, calls, pre, audit, streaks, misc>>

\* ------------------------------------- middleware/auth.js, routes/tasks.js
\* verifyToken(token): the decoded payload of a token it accepts, else null.
VerifyToken(token) ==
  CASE token = "parent1" -> UserInfo("u1", "parent", "h1")
    [] token = "child1"  -> UserInfo("u2", "child", "h1")
    [] token = "parent2" -> UserInfo("u3", "parent", "h2")
    [] OTHER             -> NoUser

\* validateTask(body[, isUpdate]).valid
ValidateTask(body) == body.valid

\* What a middleware hands on: the status it answered with, or 0 after
\* next(), and req.user.
Pass(user)   == [status |-> 0, user |-> user]
Deny(status) == [status |-> status, user |-> NoUser]

\* Mutant: the middleware accepts every header of two parts.
RequireAuth_AnyToken(header) ==
  IF Len(header) # 2 THEN Deny(401) ELSE Pass(UserInfo("u1", "parent", "h1"))

RequireAuth(header) ==
  IF header = << >> THEN Deny(401)
  ELSE IF Len(header) # 2 \/ header[1] # "Bearer" THEN Deny(401)
  ELSE IF VerifyToken(header[2]) = NoUser THEN Deny(401)
  ELSE Pass(VerifyToken(header[2]))

\* Mutant: the middleware lets every authenticated user through.
RequireAdmin_AnyRole(user) ==
  IF user = NoUser THEN Deny(401) ELSE Pass(user)

RequireAdmin(user) ==
  IF user = NoUser THEN Deny(401)
  ELSE IF user.role # "parent" THEN Deny(403)
  ELSE Pass(user)

\* The middleware each route is registered with: requireAuth on all,
\* requireAdmin on POST, PUT and DELETE.
AdminRoutes == {"POST /api/tasks", "PUT /api/tasks/:id", "DELETE /api/tasks/:id"}

Middleware(endpoint, header) ==
  LET auth == RequireAuth(header)
  IN IF auth.status # 0 \/ endpoint \notin AdminRoutes
       THEN auth
       ELSE RequireAdmin(auth.user)

\* Task.findById / Task.getHouseholdId: the row with the id, or none
TaskById(id) == {t \in taskRows : t.id = id}

\* Mutant: the handlers skip the household comparison.
Foreign_Never(id, user) == FALSE

\* task.householdId !== req.user.householdId, for the task with the id
Foreign(id, user) == \E t \in TaskById(id) : t.household # user.householdId

\* Task.findAll(householdId): SELECT DISTINCT t.* ... WHERE t.household_id = $1
FindAll(householdId) == {t \in taskRows : t.household = householdId}

\* Task.formatTask(row): schedule: row.schedule || []
FormatTask(row) ==
  [row EXCEPT !.schedule = IF @.kind = "absent" THEN Schedule("array", {}) ELSE @]

\* SELECT t.* FROM tasks t JOIN task_assignments ta ON t.id = ta.task_id
\*   WHERE ta.user_id = $1
AssignedRows(userId) ==
  {r \in taskRows : [task |-> r.id, user |-> userId] \in task_assignments}

\* Mutant: the schedule filter is left out.
GetTasksForUser_Unfiltered(userId, date) ==
  {FormatTask(r) : r \in AssignedRows(userId)}

\* Task.getTasksForUser(userId, date): the tasks joined to the user's
\* assignments, formatted and filtered by isScheduledForDate.
GetTasksForUser(userId, date) ==
  {t \in {FormatTask(r) : r \in AssignedRows(userId)} : IsScheduledForDate(t, date)}

CallGetTasksForUser(userId, date) ==
  /\ fn' = [op |-> "getTasksForUser", schedule |-> NoSchedule, date |-> date,
            result |-> FALSE, day |-> Null, user |-> userId,
            rows |-> GetTasksForUser(userId, date)]
  /\ UNCHANGED <<store, tasks, clock, pc, call, calls, pre, audit, streaks,
                 streakCalls, tz, schedule, web, homehero>>

\* task_assignments after Task.assignUsers(taskId, userIds) has run alone:
\* DELETE ... WHERE task_id = $1, then INSERT of one row per user.
Assigned(taskId, userIds) ==
  {a \in task_assignments : a.task # taskId}
    \cup {[task |-> taskId, user |-> u] : u \in userIds}

\* The response to a request, with the tables as the handler leaves them
\* and the task rows of the response body.
RespondWith(endpoint, header, id, userId, status, rows, assignments, body) ==
  /\ http' = [endpoint |-> endpoint, header |-> header, id |-> id,
              userId |-> userId, status |-> status, body |-> body]
  /\ taskRows' = rows
  /\ task_assignments' = assignments
  /\ nextTaskId' = IF rows = taskRows \/ endpoint # "POST /api/tasks"
                     THEN nextTaskId ELSE nextTaskId + 1
  /\ UNCHANGED <<store, tasks, clock, pc, call, calls, pre, audit, streaks,
                 streakCalls, tz, schedule, fn, homehero>>

\* A response without task rows that leaves the tables alone.
Respond(endpoint, header, id, status, rows) ==
  RespondWith(endpoint, header, id, "-", status, rows, task_assignments, {})

\* router.post('/api/tasks', requireAuth, requireAdmin, ...); fails: the
\* statement of the handler is rejected by the store.
PostTask(header, body, fails) ==
  LET e == "POST /api/tasks"
      m == Middleware(e, header)
      task == [id |-> nextTaskId, household |-> m.user.householdId,
               name |-> body.name, schedule |-> Schedule("array", {})]
  IN /\ (m.status = 0 /\ ValidateTask(body) /\ ~fails) => nextTaskId <= MaxTasks
     /\ IF m.status # 0 THEN Respond(e, header, Null, m.status, taskRows)
        ELSE IF ~ValidateTask(body) THEN Respond(e, header, Null, 400, taskRows)
        ELSE IF fails THEN Respond(e, header, Null, 500, taskRows)
        ELSE RespondWith(e, header, Null, "-", 201, taskRows \cup {task},
               IF body.assign /\ body.users # {}
                 THEN Assigned(task.id, body.users) ELSE task_assignments,
               {task})

\* router.get('/api/tasks', requireAuth, ...)
GetTasks(header, fails) ==
  LET e == "GET /api/tasks"
      m == Middleware(e, header)
  IN IF m.status # 0 THEN Respond(e, header, Null, m.status, taskRows)
     ELSE IF fails THEN Respond(e, header, Null, 500, taskRows)
     ELSE RespondWith(e, header, Null, "-", 200, taskRows, task_assignments,
            FindAll(m.user.householdId))

\* router.get('/api/tasks/:id', requireAuth, ...)
GetTask(header, id, fails) ==
  LET e == "GET /api/tasks/:id"
      m == Middleware(e, header)
  IN IF m.status # 0 THEN Respond(e, header, id, m.status, taskRows)
     ELSE IF fails THEN Respond(e, header, id, 500, taskRows)
     ELSE IF TaskById(id) = {} THEN Respond(e, header, id, 404, taskRows)
     ELSE IF Foreign(id, m.user) THEN Respond(e, header, id, 403, taskRows)
     ELSE RespondWith(e, header, id, "-", 200, taskRows, task_assignments,
            TaskById(id))

\* router.put('/api/tasks/:id', requireAuth, requireAdmin, ...)
PutTask(header, id, body, fails) ==
  LET e == "PUT /api/tasks/:id"
      m == Middleware(e, header)
      rows == {IF t.id = id THEN [t EXCEPT !.name = body.name] ELSE t : t \in taskRows}
  IN IF m.status # 0 THEN Respond(e, header, id, m.status, taskRows)
     ELSE IF TaskById(id) = {} THEN Respond(e, header, id, 404, taskRows)
     ELSE IF Foreign(id, m.user) THEN Respond(e, header, id, 403, taskRows)
     ELSE IF ~ValidateTask(body) THEN Respond(e, header, id, 400, taskRows)
     ELSE IF fails THEN Respond(e, header, id, 500, taskRows)
     ELSE RespondWith(e, header, id, "-", 200, rows,
            IF body.assign THEN Assigned(id, body.users) ELSE task_assignments,
            {t \in rows : t.id = id})

\* router.delete('/api/tasks/:id', requireAuth, requireAdmin, ...); the
\* task's assignments go with it (ON DELETE CASCADE).
DeleteTask(header, id, fails) ==
  LET e == "DELETE /api/tasks/:id"
      m == Middleware(e, header)
  IN IF m.status # 0 THEN Respond(e, header, id, m.status, taskRows)
     ELSE IF TaskById(id) = {} THEN Respond(e, header, id, 404, taskRows)
     ELSE IF Foreign(id, m.user) THEN Respond(e, header, id, 403, taskRows)
     ELSE IF fails THEN Respond(e, header, id, 500, taskRows)
     ELSE RespondWith(e, header, id, "-", 204, {t \in taskRows : t.id # id},
            Assigned(id, {}), {})

\* router.get('/api/tasks/user/:userId', requireAuth, ...); dateOk: the
\* date query parameter parses (here to the first day).
GetUserTasks(header, userId, dateOk, fails) ==
  LET e == "GET /api/tasks/user/:userId"
      m == Middleware(e, header)
      date == DateObject(ParseDate(1))
  IN IF m.status # 0 THEN Respond(e, header, Null, m.status, taskRows)
     ELSE IF ~dateOk THEN Respond(e, header, Null, 400, taskRows)
     ELSE IF fails THEN Respond(e, header, Null, 500, taskRows)
     ELSE RespondWith(e, header, Null, userId, 200, taskRows, task_assignments,
            {t \in GetTasksForUser(userId, date) : t.household = m.user.householdId})

\* ------------------------------------------------------ Task.assignUsers
UserSets == SUBSET {"u1", "u2"}

BeginAssignUsers(p, taskId, userIds) ==
  /\ pc[p] = "idle"
  /\ pc' = [pc EXCEPT ![p] = "a_delete"]
  /\ call' = [call EXCEPT ![p] = [NoCall EXCEPT !.op = "assignUsers", !.id = taskId,
                                    !.users = userIds, !.before = task_assignments]]
  /\ UNCHANGED <<store, tasks, clock, calls, pre, audit, streaks, misc>>

\* DELETE FROM task_assignments WHERE task_id = $1; the call is over when
\* userIds is empty.
AssignDelete(p) ==
  /\ pc[p] = "a_delete"
  /\ task_assignments' = {a \in task_assignments : a.task # call[p].id}
  /\ IF call[p].users = {}
       THEN Finish(p, "ok")
       ELSE pc' = [pc EXCEPT ![p] = "a_insert"] /\ UNCHANGED call
  /\ UNCHANGED <<store, tasks, clock, calls, pre, audit, streaks, streakCalls, tz,
                 schedule, fn, taskRows, nextTaskId, http, homehero>>

\* task_assignments after INSERT INTO task_assignments (task_id, user_id)
\* VALUES ($1, $2), ...
AssignInsertRows(taskId, userIds) ==
  task_assignments \cup {[task |-> taskId, user |-> u] : u \in userIds}

\* The INSERT is rejected as a whole when a row exists already (primary
\* key) or the task does not (foreign key).
AssignInsert(p) ==
  /\ pc[p] = "a_insert"
  /\ IF \/ \E u \in call[p].users : [task |-> call[p].id, user |-> u] \in task_assignments
        \/ TaskById(call[p].id) = {}
       THEN Finish(p, "StoreError") /\ UNCHANGED task_assignments
       ELSE /\ task_assignments' = AssignInsertRows(call[p].id, call[p].users)
            /\ Finish(p, "ok")
  /\ UNCHANGED <<store, tasks, clock, calls, pre, audit, streaks, streakCalls, tz,
                 schedule, fn, taskRows, nextTaskId, http, homehero>>

\* ------------------------------------------------------ middleware/cache.js
familyChores == <<store, tasks, clock, pc, call, calls, pre, audit, streaks,
                  streakCalls, tz, schedule, fn, web>>

\* The result of get(key) at time now
GetResult(c, now, key) ==
  IF key \notin CacheKeys(c) \/ Expired(now, MapGet(c, key))
    THEN NoData
    ELSE MapGet(c, key).data

\* The Map after get(key) at time now
GetCache(c, now, key) ==
  IF key \in CacheKeys(c) /\ Expired(now, MapGet(c, key))
    THEN MapDelete(c, key)
    ELSE c

\* The Map after set(key, data, ttlSeconds) at time now
SetCache(c, now, key, data, ttlSeconds) ==
  MapSet(c, [key |-> key, data |-> data, expiry |-> now + ttlSeconds * MsPerSecond])

RECURSIVE InvalidateLoop(_, _, _)
\* for (const key of cache.keys()) if (key.startsWith(prefix)) cache.delete(key);
\* keys: the keys the iterator has not visited yet
InvalidateLoop(c, keys, prefix) ==
  IF keys = << >> THEN c
  ELSE IF StartsWith(Head(keys), prefix)
    THEN InvalidateLoop(MapDelete(c, Head(keys)), Tail(keys), prefix)
    ELSE InvalidateLoop(c, Tail(keys), prefix)

KeysOf(c) == [i \in 1..Len(c) |-> c[i].key]

\* The Map after invalidatePrefix(prefix)
InvalidatePrefixCache(c, prefix) == InvalidateLoop(c, KeysOf(c), prefix)

\* `dashboard:userId:${userId}`
UserPrefix(userId) == <<"dashboard", ":", "userId", ":">> \o userId

RECURSIVE CleanupLoop(_, _, _)
\* for (const [key, entry] of cache.entries()) if (now > entry.expiry) cache.delete(key);
CleanupLoop(c, entries, now) ==
  IF entries = << >> THEN c
  ELSE IF Expired(now, Head(entries))
    THEN CleanupLoop(MapDelete(c, Head(entries).key), Tail(entries), now)
    ELSE CleanupLoop(c, Tail(entries), now)

\* The record of a call of a cache function
CacheCalled(op, key, result) ==
  /\ cacheCall.n < MaxCacheOps
  /\ cacheCall' = [op |-> op, key |-> key, result |-> result, at |-> cacheClock,
                   before |-> cache, n |-> cacheCall.n + 1, req |-> NoReq]

\* History: the sets of these keys are deleted or invalidated.
Forget(keys) == cacheSets' = {r \in cacheSets : r.key \notin keys}

\* History: the keys that begin with the prefix
Under(prefix) ==
  {r.key : r \in {x \in cacheSets :
                   \E n \in 0..Len(x.key) : SubSeq(x.key, 1, n) = prefix}}

CacheSet(key, data, ttlSeconds) ==
  /\ CacheCalled("set", key, NoData)
  /\ cache' = SetCache(cache, cacheClock, key, data, ttlSeconds)
  /\ cacheSets' = {r \in cacheSets : r.key # key}
                    \cup {[key |-> key, data |-> data, at |-> cacheClock,
                           ttl |-> ttlSeconds]}
  /\ UNCHANGED <<cacheClock, requests, setup, familyChores>>

CacheGet(key) ==
  /\ CacheCalled("get", key, GetResult(cache, cacheClock, key))
  /\ cache' = GetCache(cache, cacheClock, key)
  /\ UNCHANGED <<cacheClock, cacheSets, requests, setup, familyChores>>

\* del(key)
CacheDel(key) ==
  /\ CacheCalled("del", key, NoData)
  /\ cache' = MapDelete(cache, key)
  /\ Forget({key})
  /\ UNCHANGED <<cacheClock, requests, setup, familyChores>>

InvalidatePrefix(prefix) ==
  /\ CacheCalled("invalidatePrefix", prefix, NoData)
  /\ cache' = InvalidatePrefixCache(cache, prefix)
  /\ Forget(Under(prefix))
  /\ UNCHANGED <<cacheClock, requests, setup, familyChores>>

InvalidateUser(userId) ==
  /\ CacheCalled("invalidateUser", userId, NoData)
  /\ cache' = InvalidatePrefixCache(cache, UserPrefix(userId))
  /\ Forget(Under(UserPrefix(userId)))
  /\ UNCHANGED <<cacheClock, requests, setup, familyChores>>

InvalidateHousehold(householdId) ==
  /\ CacheCalled("invalidateHousehold", householdId, NoData)
  /\ cache' = InvalidatePrefixCache(
                InvalidatePrefixCache(
                  cache, <<"family-dashboard", ":", "householdId", ":">> \o householdId),
                <<"dashboard", ":", "householdId", ":">> \o householdId)
  /\ Forget(Under(<<"family-dashboard", ":", "householdId", ":">> \o householdId)
              \cup Under(<<"dashboard", ":", "householdId", ":">> \o householdId))
  /\ UNCHANGED <<cacheClock, requests, setup, familyChores>>

InvalidateUserList ==
  /\ CacheCalled("invalidateUserList", <<"users">>, NoData)
  /\ cache' = InvalidatePrefixCache(cache, <<"users">>)
  /\ Forget(Under(<<"users">>))
  /\ UNCHANGED <<cacheClock, requests, setup, familyChores>>

ClearAll ==
  /\ CacheCalled("clearAll", << >>, NoData)
  /\ cache' = << >>
  /\ cacheSets' = {}
  /\ UNCHANGED <<cacheClock, requests, setup, familyChores>>

\* cleanup(), run by setInterval
Cleanup ==
  /\ CacheCalled("cleanup", << >>, NoData)
  /\ cache' = CleanupLoop(cache, cache, cacheClock)
  /\ UNCHANGED <<cacheClock, cacheSets, requests, setup, familyChores>>

\* Date.now() advances by d milliseconds, up to max.
CacheTick(d, max) ==
  /\ cacheClock + d <= max
  /\ cacheClock' = cacheClock + d
  /\ UNCHANGED <<cache, cacheCall, cacheSets, requests, setup, familyChores>>

\* The middlewares the module exports: prefix, ttl and the request field
\* that the keyGenerator reads
Middlewares ==
  [cacheDashboard |-> [prefix |-> "dashboard", ttlSeconds |-> TTL.DASHBOARD,
                       keyGenerator |-> "userId"],
   cacheFamilyDashboard |-> [prefix |-> "family-dashboard",
                             ttlSeconds |-> TTL.FAMILY_DASHBOARD,
                             keyGenerator |-> "householdId"],
   cacheUserList |-> [prefix |-> "users", ttlSeconds |-> TTL.USER_LIST,
                      keyGenerator |-> "none"]]

\* key = keyGenerator ? generateKey(prefix, keyGenerator(req)) : prefix
MiddlewareKey(mw, req) ==
  IF Middlewares[mw].keyGenerator # "none"
    THEN GenerateKey(Middlewares[mw].prefix,
                     <<<<Middlewares[mw].keyGenerator, req[Middlewares[mw].keyGenerator]>>>>)
    ELSE <<Middlewares[mw].prefix>>

\* if (cached): null and an empty body are not served
Truthy(data) == data \notin {NoData, ""}

\* Mutant: a response of any status is stored.
Cacheable_AnyStatus(statusCode) == TRUE

\* res.statusCode >= 200 && res.statusCode < 300
Cacheable(statusCode) == statusCode >= 200 /\ statusCode < 300

Request(mw, method, userId, householdId) ==
  [mw |-> mw, method |-> method, userId |-> userId, householdId |-> householdId,
   hit |-> FALSE, status |-> 0]

\* The function cacheMiddleware returns, up to next() or the HIT response
CacheMiddleware(req) ==
  LET key == MiddlewareKey(req.mw, req)
      cached == GetResult(cache, cacheClock, key)
      passed(wrapped, k) ==
        /\ Cardinality(requests) < MaxPending
        /\ requests' = requests \cup {[id |-> cacheCall.n + 1, req |-> req, key |-> k,
                                       wrapped |-> wrapped]}
        /\ cacheCall' = [op |-> "cacheMiddleware", key |-> k, result |-> NoData,
                         at |-> cacheClock, before |-> cache, n |-> cacheCall.n + 1,
                         req |-> req]
  IN  /\ cacheCall.n < MaxRequests
      /\ IF req.method # "GET"
           THEN passed(FALSE, << >>) /\ UNCHANGED cache
           ELSE /\ cache' = GetCache(cache, cacheClock, key)
                /\ IF Truthy(cached)
                     THEN /\ cacheCall' = [op |-> "cacheMiddleware", key |-> key,
                                           result |-> cached, at |-> cacheClock,
                                           before |-> cache, n |-> cacheCall.n + 1,
                                           req |-> [req EXCEPT !.hit = TRUE, !.status = 200]]
                          /\ UNCHANGED requests
                     ELSE passed(TRUE, key)
      /\ UNCHANGED <<cacheClock, cacheSets, setup, familyChores>>

\* The route handler answers with res.status(statusCode).json(data); for a
\* request that missed the cache res.json is the wrapper of lines 193-200.
RouteJson(r, statusCode, data) ==
  /\ r \in requests
  /\ requests' = requests \ {r}
  /\ cacheCall' = [op |-> "res.json", key |-> r.key, result |-> data, at |-> cacheClock,
                   before |-> cache, n |-> cacheCall.n,
                   req |-> [r.req EXCEPT !.status = statusCode]]
  /\ IF r.wrapped /\ Cacheable(statusCode)
       THEN /\ cache' = SetCache(cache, cacheClock, r.key, data,
                                 Middlewares[r.req.mw].ttlSeconds)
            /\ cacheSets' = {s \in cacheSets : s.key # r.key}
                              \cup {[key |-> r.key, data |-> data, at |-> cacheClock,
                                     ttl |-> Middlewares[r.req.mw].ttlSeconds]}
       ELSE UNCHANGED <<cache, cacheSets>>
  /\ UNCHANGED <<cacheClock, setup, familyChores>>

\* The route handler answers without res.json (res.send, res.end, an error
\* handler).
RouteEnds(r) ==
  /\ r \in requests
  /\ requests' = requests \ {r}
  /\ cacheCall' = [op |-> "res.end", key |-> r.key, result |-> NoData, at |-> cacheClock,
                   before |-> cache, n |-> cacheCall.n, req |-> r.req]
  /\ UNCHANGED <<cache, cacheClock, cacheSets, setup, familyChores>>

\* ---------------------------------------------------- tests/global-setup.js
maxRetries == 30

\* What page.goto and response.json do in one pass of the loop
ServerResponses == {"throws", "null", "notOk", "okJsonThrows", "ok"}

\* One pass of while (retries < maxRetries), from page.goto to break, to
\* the next pass, to the throw or to the sleep of the catch block
SetupGoto(response) ==
  /\ setup.pc = "goto"
  /\ setup.retries < maxRetries
  /\ setup.attempts < MaxAttempts
  /\ setup' =
       IF response = "ok"
         THEN [setup EXCEPT !.pc = "ready", !.attempts = @ + 1]
       ELSE IF response \in {"null", "notOk"}
         THEN [setup EXCEPT !.attempts = @ + 1]
       ELSE [pc |-> IF setup.retries + 1 >= maxRetries THEN "thrown" ELSE "sleep",
             retries |-> setup.retries + 1,
             attempts |-> setup.attempts + 1]
  /\ UNCHANGED <<cache, cacheClock, cacheCall, cacheSets, requests, familyChores>>

\* await new Promise(resolve => setTimeout(resolve, 1000)) is over.
SetupWake ==
  /\ setup.pc = "sleep"
  /\ setup' = [setup EXCEPT !.pc = "goto"]
  /\ UNCHANGED <<cache, cacheClock, cacheCall, cacheSets, requests, familyChores>>

\* --------------------------------------------------------------- the rest
\* A statement rejects (pool.query rejects): the call ends there, and what
\* it has already written stays written.
QueryPcs == {"c_insert", "c_task", "c_ensure", "c_credit", "c_txn",
             "u_find", "u_task", "u_debit", "u_txn", "u_delete",
             "s_ensure", "s_select", "s_update", "b_ensure", "b_select",
             "i_select", "t_select", "k_find"}

QueryFails(p) ==
  /\ pc[p] \in QueryPcs
  /\ Finish(p, "StoreError")
  /\ UNCHANGED <<store, tasks, clock, calls, pre, audit, streaks, misc>>

\* The caller takes the result; the request is over.
Return(p) ==
  /\ pc[p] = "done"
  /\ pc' = [pc EXCEPT ![p] = "idle"]
  /\ call' = [call EXCEPT ![p] = NoCall]
  /\ pre' = [pre EXCEPT ![p] = NoSnap]
  /\ UNCHANGED <<store, tasks, clock, calls, audit,
                 streaks, misc>>

\* Task.update(id, { dollarValue }): UPDATE tasks SET dollar_value = $1
TaskUpdate(t, v) ==
  /\ tasks[t] # v
  /\ tasks' = [tasks EXCEPT ![t] = v]
  /\ UNCHANGED <<store, clock, pc, call, calls, pre, audit, streaks, misc>>

Tick ==
  /\ clock < MaxTicks * TickMinutes
  /\ clock' = clock + TickMinutes
  /\ UNCHANGED <<store, tasks, pc, call, calls, pre, audit, streaks, misc>>

\* The statements of create, as issued by the callers in P for the dates in D.
CreateOf(P, D) ==
  \/ \E p \in P, t \in Tasks, u \in Users, d \in D : BeginCreate(p, t, u, d)
  \/ \E p \in P : CreateInsert(p)
  \/ \E p \in P : UpdateBalanceSelect(p)
  \/ \E p \in P : UpdateBalanceEnsure(p)
  \/ \E p \in P : UpdateBalanceCredit(p)
  \/ \E p \in P : UpdateBalanceRecord(p)

\* The statements of undo, as issued by the callers in P.
UndoOf(P) ==
  \/ \E p \in P, id \in 1..nextId : BeginUndo(p, id)
  \/ \E p \in P : UndoFind(p)
  \/ \E p \in P : UndoCheck(p)
  \/ \E p \in P : UndoSelect(p)
  \/ \E p \in P : UndoDebit(p)
  \/ \E p \in P : UndoRecord(p)
  \/ \E p \in P : UndoDelete(p)

Edit == \E t \in Tasks, v \in DollarValues : TaskUpdate(t, v)

\* canUndo, as called by the callers in P.
CanUndoOf(P) ==
  \/ \E p \in P, id \in 1..nextId : BeginCanUndo(p, id)
  \/ \E p \in P : CanUndoFind(p)
  \/ \E p \in P : CanUndoCheck(p)

\* isCompleted, as called by the callers in P.
IsCompletedOf(P) ==
  \/ \E p \in P, t \in Tasks, u \in Users, d \in Dates : BeginIsCompleted(p, t, u, d)
  \/ \E p \in P : IsCompletedSelect(p)

\* The statements of getBalance, as issued by the callers in P.
GetBalanceOf(P) ==
  \/ \E p \in P, u \in Users : BeginGetBalance(p, u)
  \/ \E p \in P : GetBalanceEnsure(p)
  \/ \E p \in P : GetBalanceSelect(p)

\* A finished call hands its result to its caller before anything else runs:
\* Return touches the caller's locals only, so taking it first loses no
\* behaviour of the store.
Returning == \E p \in Callers : pc[p] = "done"

\* Concurrent callers at one instant (every undo falls within its window),
\* all completing for the same day; a statement may reject.
Next ==
  \/ Returning /\ (\E p \in Callers : Return(p))
  \/ ~Returning /\ CreateOf(Callers, {"d1"})
  \/ ~Returning /\ UndoOf(Callers)
  \/ ~Returning /\ (\E p \in Callers : QueryFails(p))
  \/ ~Returning /\ Edit

Spec == Init /\ [][Next]_vars

\* One caller, one call after the other, while time passes.
NextClock ==
  \/ Returning /\ Return("c1")
  \/ ~Returning /\ CreateOf({"c1"}, Dates)
  \/ ~Returning /\ UndoOf({"c1"})
  \/ ~Returning /\ Edit
  \/ ~Returning /\ Tick

SpecClock == Init /\ [][NextClock]_vars

\* Two create calls, c1 submitted first, on a store that answers every
\* statement; both results stay visible.
NextRace ==
  \/ \E t \in Tasks, u \in Users, d \in Dates : BeginCreate("c1", t, u, d)
  \/ pc["c1"] # "idle" /\ \E t \in Tasks, u \in Users, d \in Dates :
                             BeginCreate("c2", t, u, d)
  \/ \E p \in Callers : CreateInsert(p)
  \/ \E p \in Callers : UpdateBalanceSelect(p)
  \/ \E p \in Callers : UpdateBalanceEnsure(p)
  \/ \E p \in Callers : UpdateBalanceCredit(p)
  \/ \E p \in Callers : UpdateBalanceRecord(p)
  \/ Edit

SpecRace == Init /\ [][NextRace]_vars

\* One caller that completes, undoes and reads balances, any number of
\* times, while task values are edited.
NextLedger ==
  \/ Returning /\ Return("c1")
  \/ ~Returning /\ CreateOf({"c1"}, Dates)
  \/ ~Returning /\ UndoOf({"c1"})
  \/ ~Returning /\ GetBalanceOf({"c1"})
  \/ ~Returning /\ Edit

SpecLedger == Init /\ [][NextLedger]_vars

\* The dates handed to updateStreak: date strings and Dates (at noon UTC)
StreakDates == {DateString(d) : d \in Days}
                 \cup {DateObject(HoursPerDay * d + 12) : d \in Days}

\* The statements of the streak calls, as issued by the callers in P for
\* the dates in D.
\* getStreakData and updateStreak for the routines in R and the dates in D.
StreakCallsOf(P, R, D) ==
  \/ \E p \in P, u \in Users, r \in R : BeginGetStreakData(p, u, r)
  \/ \E p \in P, u \in Users, r \in R, date \in D :
       BeginUpdateStreak(p, u, r, date)
  \/ \E p \in P : GetStreakDataEnsure(p)
  \/ \E p \in P : GetStreakDataSelect(p)
  \/ \E p \in P : UpdateStreakWrite(p)

\* The same for one routine.
StreakOf(P, D) == StreakCallsOf(P, {"r1"}, D)

\* getTotalStreakCount, as called by the callers in P.
TotalStreakCountOf(P) ==
  \/ \E p \in P, u \in Users : BeginGetTotalStreakCount(p, u)
  \/ \E p \in P : GetTotalStreakCountSelect(p)

\* Streak calls one after the other, in any household zone.
NextStreakSeq ==
  \/ Returning /\ Return("c1")
  \/ ~Returning /\ StreakOf({"c1"}, StreakDates)

SpecStreakSeq == InitZoned /\ [][NextStreakSeq]_vars

\* One caller that completes tasks of any schedule on both days, in any
\* household zone, while task values are edited.
NextScheduled ==
  \/ Returning /\ Return("c1")
  \/ ~Returning /\ CreateOf({"c1"}, Dates)
  \/ ~Returning /\ Edit

SpecScheduled == InitScheduled /\ [][NextScheduled]_vars

\* The dates handed to isScheduledForDate: for each day of more than a
\* week, the date string and Dates in the night, at noon and in the evening
ScheduleDays == MaxDay..(MaxDay + 7)

ScheduleDates ==
  {DateString(d) : d \in ScheduleDays}
    \cup {DateObject(HoursPerDay * d + h) : d \in ScheduleDays, h \in {1, 12, 23}}

\* isScheduledForDate applied to any task and date, in any household zone.
NextSchedule ==
  \E s \in Schedules, date \in ScheduleDates :
    CallIsScheduledForDate([schedule |-> s], date)

SpecSchedule == InitZoned /\ [][NextSchedule]_vars

\* Two updateStreak calls in a household in UTC, c1 submitted first; both
\* results stay visible.
NextStreakRace ==
  \/ \E u \in Users, r \in {"r1"}, date \in StreakDates :
       BeginUpdateStreak("c1", u, r, date)
  \/ pc["c1"] # "idle" /\ \E u \in Users, r \in {"r1"}, date \in StreakDates :
                             BeginUpdateStreak("c2", u, r, date)
  \/ \E p \in Callers : GetStreakDataEnsure(p)
  \/ \E p \in Callers : GetStreakDataSelect(p)
  \/ \E p \in Callers : UpdateStreakWrite(p)

SpecStreakRace == Init /\ [][NextStreakRace]_vars

\* One caller that completes, undoes and makes one streak call (all for
\* day 1) while time passes; a statement may reject.
NextUndoStreak ==
  \/ Returning /\ Return("c1")
  \/ ~Returning /\ CreateOf({"c1"}, {"d1"})
  \/ ~Returning /\ UndoOf({"c1"})
  \/ ~Returning /\ StreakOf({"c1"}, {DateString(1)}) /\ streakCalls' = 1
  \/ ~Returning /\ QueryFails("c1")
  \/ ~Returning /\ Tick

SpecUndoStreak == Init /\ [][NextUndoStreak]_vars

\* Concurrent streak calls, in a household in UTC or west of it (a zone
\* east of UTC computes the same day differences as UTC).
NextStreak ==
  \/ Returning /\ (\E p \in Callers : Return(p))
  \/ ~Returning /\ StreakOf(Callers, StreakDates)

SpecStreak ==
  InitWith({0}, {z \in TzOffsets : z <= 0}, {Schedule("array", {})})
    /\ [][NextStreak]_vars

\* The completion date and the schedule test, applied to instants around
\* midnight and to date strings, in any household zone.
NextDates ==
  \/ \E date \in ScheduleDates : CallCompletionDate(date)
  \/ NextSchedule

SpecDates == InitZoned /\ [][NextDates]_vars

\* One caller that updates the streaks of both routines on two days, in a
\* household in UTC, and reads totals; statements may fail.
NextTotals ==
  \/ Returning /\ Return("c1")
  \/ ~Returning /\ StreakCallsOf({"c1"}, Routines, {DateString(1), DateString(2)})
  \/ ~Returning /\ TotalStreakCountOf({"c1"})
  \/ ~Returning /\ QueryFails("c1")

SpecTotals == Init /\ [][NextTotals]_vars

\* Creates tried again and again by two callers, with task values edited
\* in between; nothing is undone.
NextRetry ==
  \/ Returning /\ \E p \in Callers : Return(p)
  \/ ~Returning /\ CreateOf(Callers, Dates)
  \/ ~Returning /\ Edit

SpecRetry == Init /\ [][NextRetry]_vars

\* Two undo calls for the one existing completion, c1 submitted first, in
\* any interleaving, with statements that may fail; both results stay
\* visible.
NextUndoRace ==
  \/ \E id \in 1..(nextId - 1) : BeginUndo("c1", id)
  \/ pc["c1"] # "idle" /\ \E id \in 1..(nextId - 1) : BeginUndo("c2", id)
  \/ \E p \in Callers : UndoFind(p)
  \/ \E p \in Callers : UndoCheck(p)
  \/ \E p \in Callers : UndoSelect(p)
  \/ \E p \in Callers : UndoDebit(p)
  \/ \E p \in Callers : UndoRecord(p)
  \/ \E p \in Callers : UndoDelete(p)
  \/ \E p \in Callers : QueryFails(p)

SpecUndoRace == InitCredited /\ [][NextUndoRace]_vars

\* One caller that completes, asks whether it can undo and undoes, while
\* time passes.
NextCanUndo ==
  \/ Returning /\ Return("c1")
  \/ ~Returning /\ CreateOf({"c1"}, {"d1"})
  \/ ~Returning /\ UndoOf({"c1"})
  \/ ~Returning /\ CanUndoOf({"c1"})
  \/ ~Returning /\ Tick

SpecCanUndo == Init /\ [][NextCanUndo]_vars

\* One caller that completes and undoes a task whose value is changed
\* between two positive amounts by Task.update.
Repriced == {100, 200}

NextRepriced ==
  \/ Returning /\ Return("c1")
  \/ ~Returning /\ CreateOf({"c1"}, Dates)
  \/ ~Returning /\ UndoOf({"c1"})
  \/ ~Returning /\ \E t \in Tasks, v \in Repriced : TaskUpdate(t, v)

SpecRepriced ==
  InitWith(Repriced, {0}, {Schedule("array", {})}) /\ [][NextRepriced]_vars

\* Requests to the task routes with the headers in H and the bodies in B,
\* one handled after the other.
TasksApi(H, B) ==
  \/ \E h \in H, b \in B, f \in BOOLEAN : PostTask(h, b, f)
  \/ \E h \in H, f \in BOOLEAN : GetTasks(h, f)
  \/ \E h \in H, id \in TaskIds, f \in BOOLEAN : GetTask(h, id, f)
  \/ \E h \in H, id \in TaskIds, b \in B, f \in BOOLEAN : PutTask(h, id, b, f)
  \/ \E h \in H, id \in TaskIds, f \in BOOLEAN : DeleteTask(h, id, f)
  \/ \E h \in H, u \in {"u2"}, d \in BOOLEAN, f \in BOOLEAN :
       GetUserTasks(h, u, d, f)

NextTasksApi == TasksApi(Headers, Bodies)

\* getTasksForUser for a user with and without assignments, on any date.
NextUserTasks ==
  \E u \in {"u1", "u2"}, date \in ScheduleDates : CallGetTasksForUser(u, date)

SpecUserTasks == InitTables /\ [][NextUserTasks]_vars

\* Two assignUsers calls for the first task, c1 submitted first, in any
\* interleaving; both results stay visible.
NextAssign ==
  \/ \E U \in UserSets : BeginAssignUsers("c1", 1, U)
  \/ pc["c1"] # "idle" /\ \E U \in UserSets : BeginAssignUsers("c2", 1, U)
  \/ \E p \in Callers : AssignDelete(p)
  \/ \E p \in Callers : AssignInsert(p)

SpecAssign == InitAssigned /\ [][NextAssign]_vars

DashboardKey(userId) == GenerateKey("dashboard", <<<<"userId", userId>>>>)

\* Calls of the cache functions on two keys while time passes in half
\* seconds.
NextCache ==
  \/ \E k \in {DashboardKey(<<"1">>), <<"users">>}, d \in CacheData, ttl \in {0, 1} :
       CacheSet(k, d, ttl)
  \/ \E k \in {DashboardKey(<<"1">>), <<"users">>} : CacheGet(k)
  \/ \E k \in {DashboardKey(<<"1">>), <<"users">>} : CacheDel(k)
  \/ \E prefix \in {<<"dashboard">>, <<"users">>} : InvalidatePrefix(prefix)
  \/ ClearAll
  \/ Cleanup
  \/ \E d \in {MsPerSecond \div 2, MsPerSecond} :
       CacheTick(d, MaxCacheSeconds * MsPerSecond)

SpecCache == Init /\ [][NextCache]_vars

FamilyKey(householdId) ==
  GenerateKey("family-dashboard", <<<<"householdId", householdId>>>>)

StoredKeys ==
  {DashboardKey(u) : u \in DashboardUsers} \cup {FamilyKey(<<"1">>), <<"users">>}

\* The Maps that sets of the stored keys at time 0 produce, in every order
CacheTables ==
  {[i \in 1..Len(ks) |-> [key |-> ks[i], data |-> "x",
                          expiry |-> TTL.DASHBOARD * MsPerSecond]] :
     ks \in {s \in UNION {[1..n -> StoredKeys] : n \in 0..Cardinality(StoredKeys)} :
               \A i, j \in 1..Len(s) : s[i] = s[j] => i = j}}

InitCached == InitTablesOf({0}, {}, CacheTables)

Prefixes ==
  {<< >>, <<"dashboard">>, <<"family-dashboard">>, <<"users">>, UserPrefix(<<"1">>)}

\* Invalidations of a filled cache
NextInvalidate ==
  \/ \E prefix \in Prefixes : InvalidatePrefix(prefix)
  \/ \E u \in DashboardUsers : InvalidateUser(u)
  \/ \E h \in {<<"1">>} : InvalidateHousehold(h)
  \/ InvalidateUserList

SpecInvalidate == InitCached /\ [][NextInvalidate]_vars

CacheRequests ==
  {Request("cacheDashboard", "GET", u, <<"1">>) : u \in {<<"1">>, <<"2">>, Undefined}}
    \cup {Request("cacheDashboard", "POST", <<"1">>, <<"1">>),
          Request("cacheFamilyDashboard", "GET", <<"1">>, <<"1">>),
          Request("cacheUserList", "GET", <<"2">>, <<"1">>)}

\* Requests to the cached routes while time passes by the dashboard ttl
NextCachedRoutes ==
  \/ \E req \in CacheRequests : CacheMiddleware(req)
  \/ \E r \in requests, statusCode \in {200, 404}, data \in {"x", ""} :
       RouteJson(r, statusCode, data)
  \/ \E r \in requests : RouteEnds(r)
  \/ CacheTick(TTL.DASHBOARD * MsPerSecond, 2 * TTL.DASHBOARD * MsPerSecond)

SpecCachedRoutes == Init /\ [][NextCachedRoutes]_vars

\* globalSetup against a server that answers in any way
NextSetup ==
  \/ \E response \in ServerResponses : SetupGoto(response)
  \/ SetupWake

SpecSetup == Init /\ [][NextSetup]_vars

\* Authenticated requests of the users of two households, with bodies
\* that validate and may assign a user.
BearerHeaders == {<<"Bearer", t>> : t \in Tokens \ {"expired"}}

NextIsolation == TasksApi(BearerHeaders, AssigningBodies)

SpecIsolation == Init /\ [][NextIsolation]_vars

SpecTasksApi == Init /\ [][NextTasksApi]_vars

\* One caller that completes, undoes and asks whether a task is completed.
NextLookup ==
  \/ Returning /\ Return("c1")
  \/ ~Returning /\ CreateOf({"c1"}, Dates)
  \/ ~Returning /\ UndoOf({"c1"})
  \/ ~Returning /\ IsCompletedOf({"c1"})
  \/ ~Returning /\ QueryFails("c1")

SpecLookup == Init /\ [][NextLookup]_vars

\* One caller that completes, undoes, reads balances and touches one streak
\* row, with statements that may fail.
NextLog ==
  \/ Returning /\ Return("c1")
  \/ ~Returning /\ CreateOf({"c1"}, {"d1"})
  \/ ~Returning /\ UndoOf({"c1"})
  \/ ~Returning /\ GetBalanceOf({"c1"})
  \/ ~Returning /\ StreakOf({"c1"}, {DateString(1)}) /\ streakCalls' = 1
  \/ ~Returning /\ QueryFails("c1")

SpecLog == Init /\ [][NextLog]_vars

\* ------------------------------------------------------------ properties
SameKey(a, b) == SameRowKey(a, b)

KeyRows(rows, k) == {c \in rows : SameKey(c, k)}

RowIds(rows) == {c.id : c \in rows}

Balances == [u \in Users |-> Balance(u)]

\* What a caller that ran alone sees unchanged since its call began.
Untouched(p) ==
  /\ completions = pre[p].completions
  /\ Balances = pre[p].balances
  /\ balance_transactions = pre[p].txns

RECURSIVE SumTx(_, _)
SumTx(txns, u) ==
  IF txns = <<>> THEN 0
  ELSE (IF Head(txns).user = u THEN Head(txns).amount ELSE 0) + SumTx(Tail(txns), u)

CreateDone(p) == pc[p] = "done" /\ call[p].op = "create"
UndoDone(p)   == pc[p] = "done" /\ call[p].op = "undo"

\* C1: in every reachable state there is at most one completion row for
\* each (task, user, completion date).
C1_UniqueCompletion ==
  \A a \in completions, b \in completions : SameKey(a, b) => a = b

\* C1 witness: a create lost against a row that another caller inserted
\* while it was in flight.
C1_Witness ==
  \E p \in Callers :
    /\ CreateDone(p) /\ call[p].result = "ConflictError"
    /\ ~pre[p].valid
    /\ Cardinality(KeyRows(completions, call[p])) = 1

\* C2: a create that runs alone after a completion for its (task, user, date)
\* was persisted is rejected with the conflict error, and exactly the one
\* completion stays persisted.
C2_SecondCreateConflicts ==
  \A p \in Callers :
    (/\ CreateDone(p) /\ pre[p].valid /\ call[p].result # "StoreError"
     /\ KeyRows(pre[p].completions, call[p]) # {})
    => /\ call[p].result = "ConflictError"
       /\ completions = pre[p].completions
       /\ Cardinality(KeyRows(completions, call[p])) = 1

\* C2 witness: the second of two sequential creates has been rejected.
C2_Witness ==
  \E p \in Callers :
    /\ CreateDone(p) /\ pre[p].valid /\ call[p].result = "ConflictError"
    /\ KeyRows(pre[p].completions, call[p]) # {}
    /\ balance_transactions # <<>>

\* C3: two creates for the same (task, user, date) that race on an empty
\* table end with exactly one success and one conflict error, and one row.
C3_RaceOneWinner ==
  (/\ pc["c1"] = "done" /\ pc["c2"] = "done" /\ SameKey(call["c1"], call["c2"]))
  => /\ {call["c1"].result, call["c2"].result} = {"ok", "ConflictError"}
     /\ Cardinality(KeyRows(completions, call["c1"])) = 1

\* C3 witness: the caller submitted first is the one that lost.
C3_Witness ==
  /\ pc["c1"] = "done" /\ pc["c2"] = "done" /\ SameKey(call["c1"], call["c2"])
  /\ call["c1"].result = "ConflictError" /\ call["c2"].result = "ok"

\* C4: a completion of a task worth more than 0 never exists without its
\* balance increment and its earned transaction, and no credit is applied
\* without its transaction.
C4_CreateAtomic ==
  /\ \A c \in completions :
       (audit[c.id].valueAt > 0 /\ audit[c.id].debited = 0 /\ audit[c.id].adjusted = 0)
       => (audit[c.id].credited = audit[c.id].valueAt
           /\ audit[c.id].earned = audit[c.id].valueAt)
  /\ \A i \in Ids : audit[i].credited = audit[i].earned

\* C5: in every reachable state each user's cached balance equals the sum
\* of the amounts of that user's balance transactions.
C5_Reconciled ==
  \A u \in Users : Balance(u) = SumTx(balance_transactions, u)

\* C6: a successful create for a task worth v > 0 raises the user's balance
\* by exactly v, appends exactly one earned transaction of v for that user,
\* and changes no other user's balance.
C6_CreateCreditsExactly ==
  \A p \in Callers :
    (/\ CreateDone(p) /\ pre[p].valid /\ call[p].result = "ok" /\ call[p].dv > 0)
    => /\ Balance(call[p].user) = pre[p].balances[call[p].user] + call[p].dv
       /\ balance_transactions =
            Append(pre[p].txns, TxnRow(call[p].user, call[p].dv, "earned", call[p].task))
       /\ \A w \in Users \ {call[p].user} : Balance(w) = pre[p].balances[w]

\* C6 witness: a credited create by a user who already had a balance.
C6_Witness ==
  \E p \in Callers :
    /\ CreateDone(p) /\ pre[p].valid /\ call[p].result = "ok" /\ call[p].dv > 0
    /\ pre[p].balances[call[p].user] > 0

\* C7: a successful undo of a completed create deletes the completion,
\* appends an adjustment that is the negation of what the create credited
\* and restores the balance, whatever happened to the task in between.
C7_UndoOffsetsCredit ==
  \A p \in Callers :
    (/\ UndoDone(p) /\ pre[p].valid /\ call[p].result = "ok" /\ audit[call[p].id].ok)
    => /\ call[p].id \notin RowIds(completions)
       /\ audit[call[p].id].adjusted = audit[call[p].id].credited
       /\ Balance(call[p].completion.user) =
            pre[p].balances[call[p].completion.user] - audit[call[p].id].credited

\* C8: an undo that found its completion fails as expired exactly when the
\* time it read minus completedAt exceeds the window (equal is allowed), and
\* an expired undo leaves completions, balances and the log unchanged.
C8_ExpiredIffPastWindow ==
  \A p \in Callers :
    UndoDone(p) =>
      /\ call[p].completion # NoRow =>
           (call[p].result = "ExpiredError"
              <=> call[p].now - call[p].completion.completedAt > UNDO_WINDOW_MINUTES)
      /\ call[p].result = "ExpiredError" =>
           (call[p].completion # NoRow /\ (pre[p].valid => Untouched(p)))

\* C8 witness: an undo of a credited completion has failed as expired.
C8_Witness ==
  \E p \in Callers :
    /\ UndoDone(p) /\ call[p].result = "ExpiredError"
    /\ balance_transactions # <<>>

\* C8, the boundary: an undo succeeded exactly UNDO_WINDOW_MINUTES after
\* the completion.
C8_WitnessBoundary ==
  \E p \in Callers :
    /\ UndoDone(p) /\ call[p].result = "ok"
    /\ call[p].now - call[p].completion.completedAt = UNDO_WINDOW_MINUTES

\* C9: an undo of an id that has no completion is answered not-found and
\* changes no completion, balance or transaction.
C9_UndoUnknownId ==
  \A p \in Callers :
    (/\ UndoDone(p) /\ pre[p].valid /\ call[p].result # "StoreError"
     /\ call[p].id \notin RowIds(pre[p].completions))
    => (call[p].result = "NotFoundError" /\ Untouched(p))

\* C9 witness: not-found was answered while other completions exist.
C9_Witness ==
  \E p \in Callers :
    /\ UndoDone(p) /\ pre[p].valid /\ call[p].result = "NotFoundError"
    /\ completions # {}

\* C10: the debit of an undo and the deletion of its completion are one
\* unit: no completion that still exists has been debited, and no credited
\* completion is gone without its debit and its adjustment.
C10_UndoAtomic ==
  /\ \A c \in completions : audit[c.id].debited = 0 /\ audit[c.id].adjusted = 0
  /\ \A i \in 1..(nextId - 1) :
       (i \notin RowIds(completions) /\ audit[i].credited > 0)
       => (audit[i].debited > 0 /\ audit[i].adjusted > 0)

\* A step of an undo call: its caller moves, before or after as an undo.
UndoStep ==
  \E p \in Callers : pc'[p] # pc[p] /\ "undo" \in {call[p].op, call'[p].op}

\* C11: no step of Completion.undo, of an undo that succeeds or of one that
\* fails, changes any streak row (current count, best count, last date).
C11_UndoKeepsStreaks == [][UndoStep => streaks' = streaks]_vars

\* C11 witness: an undo has succeeded for a user who has a running streak.
C11_Witness ==
  \E p \in Callers :
    /\ UndoDone(p) /\ call[p].result = "ok"
    /\ \E r \in Routines : streaks[<<call[p].completion.user, r>>].current_count > 0

\* C11, the failures: an undo has failed (expired, not found, rejected
\* statement) while a streak is running.
C11_WitnessFailed ==
  \E p \in Callers :
    /\ UndoDone(p) /\ call[p].result \in {"ExpiredError", "NotFoundError", "StoreError"}
    /\ \E k \in StreakKeys : streaks[k].current_count > 0

StreakDone(p) == pc[p] = "done" /\ call[p].op = "updateStreak"

StreakRowOf(p) == streaks[<<call[p].user, call[p].routine>>]

\* The streak rule as specified, on calendar days.
RuleCount(row, date) ==
  IF row.last_completion_date = Null THEN 1
  ELSE IF date = row.last_completion_date + 1 THEN row.current_count + 1
  ELSE IF date = row.last_completion_date THEN row.current_count
  ELSE 1

RuleRow(row, date) ==
  LET current == RuleCount(row, date)
  IN [exists |-> TRUE, current_count |-> current,
      best_count |-> IF row.best_count > current THEN row.best_count ELSE current,
      last_completion_date |-> date]

\* C12: an updateStreak that ran alone on the prior row (current, best,
\* lastDate) with a date leaves current = 1 if lastDate is null, current + 1
\* if the date is the day after lastDate, current if it is lastDate, and 1
\* otherwise; best = max(best, current); lastDate = date.
C12_StreakRule ==
  \A p \in Callers :
    StreakDone(p) => StreakRowOf(p) = RuleRow(call[p].prior, call[p].day)

\* C13: in every reachable state, under any interleaving of getStreakData
\* and updateStreak calls, every streak row has best count >= current count.
C13_BestAtLeastCurrent ==
  \A k \in StreakKeys : streaks[k].best_count >= streaks[k].current_count

\* C13 witness: a caller is about to write what it computed from an older
\* read of a row that another caller has since raised to a streak of two.
C13_Witness ==
  \E p \in Callers :
    /\ pc[p] = "s_update"
    /\ StreakRowOf(p).current_count > 1
    /\ call[p].currentStreak.bestCount < StreakRowOf(p).best_count

\* C14: across any sequence of updateStreak calls the best count of a
\* streak never decreases, also when current is reset to 1 after a gap.
C14_BestNeverDecreases ==
  [][\A k \in StreakKeys : streaks'[k].best_count >= streaks[k].best_count]_vars

\* C14 witness: day 1, day 2, day 3 skipped, day 4: current = 1, best = 2.
C14_Witness ==
  /\ tz = 0
  /\ \E k \in StreakKeys :
       streaks[k] = [exists |-> TRUE, current_count |-> 1, best_count |-> 2,
                     last_completion_date |-> 4]

\* C15: an updateStreak for the same (user, routine) and the same date as
\* the invocation before it leaves current, best and lastDate as that
\* invocation left them.
C15_SameDateAgain ==
  \A p \in Callers :
    (/\ StreakDone(p)
     /\ call[p].prior.last_completion_date = call[p].day)
    => StreakRowOf(p) = call[p].prior

\* One updateStreak applied to a row on its own, as the code computes it.
ApplyUpdate(row, date) == UpdatedStreakRow(RowData(row), date)

\* C16: two concurrent updateStreak calls for the same (user, routine) end
\* with the row that applying the two updates one after the other, in one
\* of the two orders, gives.
C16_StreakSerializable ==
  (/\ StreakDone("c1") /\ StreakDone("c2")
   /\ call["c1"].user = call["c2"].user /\ call["c1"].routine = call["c2"].routine)
  => LET row0 == call["c1"].prior
         a == call["c1"].day
         b == call["c2"].day
     IN StreakRowOf("c1") \in {ApplyUpdate(ApplyUpdate(row0, a), b),
                               ApplyUpdate(ApplyUpdate(row0, b), a)}

\* C17: when two concurrent creates (different dates) that credit the same
\* user have both finished successfully, the user's balance has grown from
\* 0 by the sum of the two credited values and equals the sum of the user's
\* transactions.
C17_NoLostCredit ==
  (/\ CreateDone("c1") /\ CreateDone("c2")
   /\ call["c1"].result = "ok" /\ call["c2"].result = "ok"
   /\ call["c1"].user = call["c2"].user)
  => /\ Balance(call["c1"].user) = call["c1"].dv + call["c2"].dv
     /\ Balance(call["c1"].user) = SumTx(balance_transactions, call["c1"].user)

\* C17 witness: two credited creates for one user, each of which wrote
\* while the other was in flight.
C17_Witness ==
  /\ CreateDone("c1") /\ CreateDone("c2")
  /\ call["c1"].result = "ok" /\ call["c2"].result = "ok"
  /\ call["c1"].user = call["c2"].user
  /\ call["c1"].dv > 0 /\ call["c2"].dv > 0
  /\ ~pre["c1"].valid /\ ~pre["c2"].valid

\* The weekday, 0 = Sunday .. 6 = Saturday, of a calendar day.
Weekday(day) == (day + EpochWeekday) % 7

\* The weekday of a date: of the day a date string names, and of the
\* household-local day an instant falls on.
WeekdayOf(date) ==
  IF date.kind = "string"
    THEN Weekday(date.value)
    ELSE Weekday((date.value + tz) \div HoursPerDay)

\* C18: isScheduledForDate returns true for every date when the schedule is
\* absent, not an array or empty, and otherwise true exactly when the
\* weekday of the date is in the schedule ({1,3,5}: Monday, Wednesday and
\* Friday only).
C18_ScheduledIffWeekday ==
  fn.op = "isScheduledForDate" =>
    IF fn.schedule.kind # "array" \/ fn.schedule.days = {}
      THEN fn.result = TRUE
      ELSE fn.result = (WeekdayOf(fn.date) \in fn.schedule.days)

\* C19: a create for a (task, user, date) that has no completion, run to
\* its end, succeeds and records the completion, on a date the task is
\* scheduled for and on a date it is not.
C19_SchedulingAdvisory ==
  \A p \in Callers :
    (/\ CreateDone(p) /\ pre[p].valid
     /\ KeyRows(pre[p].completions, call[p]) = {})
    => /\ call[p].result = "ok"
       /\ KeyRows(completions, call[p]) = {call[p].completion}
       /\ completions = pre[p].completions \cup {call[p].completion}

\* C19 witness: a completion was recorded for a date the task is not
\* scheduled for, next to one recorded on schedule.
C19_Witness ==
  \E p \in Callers :
    /\ CreateDone(p) /\ call[p].result = "ok"
    /\ ~OnSchedule(call[p].task, call[p].date)
    /\ \E c \in completions : OnSchedule(c.task, c.date)

\* The balances and the transaction log as they were when p's call began.
LedgerUntouched(p) ==
  Balances = pre[p].balances /\ balance_transactions = pre[p].txns

\* C20, create: a successful create for a task whose value is 0 inserts
\* the completion and leaves every balance and the log unchanged.
C20_CreateZeroValue ==
  \A p \in Callers :
    (/\ CreateDone(p) /\ pre[p].valid /\ call[p].result = "ok" /\ call[p].dv = 0)
    => (call[p].completion \in completions /\ LedgerUntouched(p))

\* C20, undo: a successful undo of a completion created for a task whose
\* value was 0 appends no transaction and changes no balance.
C20_UndoZeroValue ==
  \A p \in Callers :
    (/\ UndoDone(p) /\ pre[p].valid /\ call[p].result = "ok"
     /\ audit[call[p].id].ok /\ audit[call[p].id].valueAt = 0
     /\ audit[call[p].id].credited = 0)
    => LedgerUntouched(p)

\* C20: a create for a task worth 0 inserts the completion and leaves the
\* balances and the transaction log unchanged, and so does the undo of
\* such a completion.
C20_ZeroValueLeavesLedger == C20_CreateZeroValue /\ C20_UndoZeroValue

GetBalanceDone(p) == pc[p] = "done" /\ call[p].op = "getBalance"

\* C21: the ensure step, in getBalance and in updateBalance, creates a zero
\* row only for a user without one and alters no existing balance:
\* getBalance returns the balance the user had, leaves every balance and
\* the log as they were, and leaves the user with a row.
C21_EnsureIdempotent ==
  \A p \in Callers :
    /\ (GetBalanceDone(p) /\ pre[p].valid)
         => /\ call[p].returned = pre[p].balances[call[p].user]
            /\ LedgerUntouched(p)
            /\ balances[call[p].user].exists
    /\ (pc[p] = "c_credit" /\ pre[p].valid)
         => (Balances = pre[p].balances /\ balances[call[p].user].exists)

\* C21 witness: getBalance has returned a balance that a create credited.
C21_Witness ==
  \E p \in Callers :
    GetBalanceDone(p) /\ pre[p].valid /\ call[p].returned > 0

\* C22: the transaction log is append-only: every step of create, undo,
\* getBalance and the streak operations leaves the rows already written in
\* place and unchanged, so the log only ever grows at its end.
C22_LogAppendOnly ==
  [][/\ Len(balance_transactions') >= Len(balance_transactions)
     /\ SubSeq(balance_transactions', 1, Len(balance_transactions))
          = balance_transactions]_vars

\* C22 witness: an undo has appended its adjustment after the earned row,
\* which is still in place.
C22_Witness ==
  /\ Len(balance_transactions) >= 2
  /\ balance_transactions[1].type = "earned"
  /\ \E i \in 2..Len(balance_transactions) :
       balance_transactions[i].type = "adjustment"
  /\ \E u \in Users : streaks[<<u, "r1">>].exists

\* The completions a step removes.
Removed == {c \in completions : c \notin completions'}

\* Every step keeps or removes each existing completion row as it is, and a
\* row is removed only by the DELETE of an undo of that row.
OnlyUndoRemoves ==
  /\ \A c \in completions' : c \in completions \/ c.id \notin RowIds(completions)
  /\ \A c \in Removed :
       \E p \in Callers : /\ pc[p] = "u_delete" /\ pc'[p] = "done"
                          /\ call[p].op = "undo" /\ call[p].id = c.id

\* C23: a completion is removed only by undo, never modified, and never
\* deleted at a moment more than UNDO_WINDOW_MINUTES after its completedAt,
\* even when time passes between undo's window check and its DELETE.
C23_DeleteWithinWindow ==
  [][/\ OnlyUndoRemoves
     /\ \A c \in Removed : clock - c.completedAt <= UNDO_WINDOW_MINUTES]_vars

\* C23, the part the code keeps: rows are removed by undo alone and are
\* never modified.
C23_OnlyUndoRemoves == [][OnlyUndoRemoves]_vars

\* C24: for every instant and every household zone, the completion date
\* derived from a Date is the household-local calendar day of that instant,
\* the day whose weekday isScheduledForDate tests (getDay).
C24_CompletionDateIsLocalDay ==
  (fn.op = "completionDate" /\ fn.date.kind = "Date")
    => /\ fn.day = (fn.date.value + tz) \div HoursPerDay
       /\ Weekday(fn.day) = GetDay(fn.date.value)

\* The calendar day the clock is in: runs start on the day "d1" names.
Today == DayOfDate("d1") + clock \div (HoursPerDay * 60)

\* C25: create rejects a date later than today with a ValidationError,
\* persisting no completion and crediting no balance: a finished create for
\* a later date has that result and has left the store as it was, and no
\* stored completion is dated after today.
C25_RejectsFutureDate ==
  /\ \A p \in Callers :
       (CreateDone(p) /\ DayOfDate(call[p].date) > Today)
         => /\ call[p].result = "ValidationError"
            /\ pre[p].valid => Untouched(p)
  /\ \A c \in completions : DayOfDate(c.date) <= Today

IsCompletedDone(p) ==
  pc[p] = "done" /\ call[p].op = "isCompleted" /\ call[p].result = "ok"

\* C26: isCompleted(task, user, date) changes no state and returns a
\* completion exactly when a row for that (task, user, date) exists at that
\* moment, and then that row: non-null after a create, null after its undo.
C26_IsCompletedExact ==
  \A p \in Callers :
    (IsCompletedDone(p) /\ pre[p].valid)
      => /\ Untouched(p)
         /\ (call[p].completion # NoRow)
              <=> \E c \in completions :
                    /\ c.task = call[p].task /\ c.user = call[p].user
                    /\ c.date = call[p].date
         /\ call[p].completion # NoRow
              => /\ call[p].completion \in completions
                 /\ call[p].completion.task = call[p].task
                 /\ call[p].completion.user = call[p].user
                 /\ call[p].completion.date = call[p].date

\* C26 witness: isCompleted has returned null for a task and user whose
\* completion was created and then undone.
C26_Witness ==
  \E p \in Callers :
    /\ IsCompletedDone(p) /\ call[p].completion = NoRow
    /\ completions = {} /\ nextId > 1
    /\ \E i \in 1..Len(balance_transactions) :
         /\ balance_transactions[i].type = "adjustment"
         /\ balance_transactions[i].user = call[p].user
         /\ balance_transactions[i].description = call[p].task

\* isCompleted has returned the row of a completion made for another date
\* than the one also stored for that task and user.
C26_WitnessFound ==
  \E p \in Callers :
    /\ IsCompletedDone(p) /\ call[p].completion # NoRow
    /\ \E c \in completions :
         /\ c.task = call[p].task /\ c.user = call[p].user
         /\ c.date # call[p].date

\* The step in which caller p's getTotalStreakCount returns.
TotalStep(p) ==
  /\ pc[p] = "t_select" /\ pc'[p] = "done" /\ call'[p].result = "ok"

\* C27: getTotalStreakCount(user) returns the sum of the current counts of
\* that user's streak rows, 0 when there are none, counts no other user's
\* rows, and changes no state.
C27_TotalStreakCount ==
  [][\A p \in Callers :
       TotalStep(p)
         => /\ call'[p].returned
                 = streaks[<<call[p].user, "r1">>].current_count
                     + streaks[<<call[p].user, "r2">>].current_count
            /\ (\A r \in Routines : ~streaks[<<call[p].user, r>>].exists)
                 => call'[p].returned = 0
            /\ UNCHANGED <<store, streaks, tasks>>]_vars

\* C27 witness: a total of two rows has been returned for a user while the
\* other user has a running streak too.
C27_Witness ==
  \E p \in Callers :
    /\ pc[p] = "done" /\ call[p].op = "getTotalStreakCount"
    /\ call[p].returned >= 2
    /\ \A r \in Routines : streaks[<<call[p].user, r>>].current_count > 0
    /\ \E u \in Users \ {call[p].user} : streaks[<<u, "r1">>].current_count > 0

\* The user a header authenticates: a Bearer header whose token verifies.
Authenticated(header) ==
  IF Len(header) = 2 /\ header[1] = "Bearer" THEN VerifyToken(header[2]) ELSE NoUser

C28_WitnessNoToken ==
  /\ http.header = << >> /\ http.status = 401 /\ taskRows # {}

\* The earned rows of the log for user u and task t.
EarnedRows(u, t) ==
  {i \in 1..Len(balance_transactions) :
     /\ balance_transactions[i].type = "earned"
     /\ balance_transactions[i].user = u
     /\ balance_transactions[i].description = t}

\* C29: a create that fails because the completion exists leaves balances
\* and the log as they were, and however often create is tried a
\* (task, user, date) is credited at most once: there are never more earned
\* rows for a task and user than completions of that task by that user.
C29_ConflictCreditsNothing ==
  /\ \A p \in Callers :
       (CreateDone(p) /\ call[p].result = "ConflictError" /\ pre[p].valid)
         => LedgerUntouched(p)
  /\ \A u \in Users, t \in Tasks :
       Cardinality(EarnedRows(u, t))
         <= Cardinality({c \in completions : c.user = u /\ c.task = t})

\* C29 witness: a create has failed on an existing completion whose credit
\* is in the user's balance.
C29_Witness ==
  \E p \in Callers :
    /\ CreateDone(p) /\ call[p].result = "ConflictError" /\ pre[p].valid
    /\ pre[p].balances[call[p].user] > 0
    /\ EarnedRows(call[p].user, call[p].task) # {}

\* The adjustment rows of the log for user u and task t.
AdjustmentRows(u, t) ==
  {i \in 1..Len(balance_transactions) :
     /\ balance_transactions[i].type = "adjustment"
     /\ balance_transactions[i].user = u
     /\ balance_transactions[i].description = t}

\* C30: at most one offsetting debit is applied for a completion: when undo
\* is called twice for the same id, in sequence or interleaved, no more is
\* debited than was credited and there are never more adjustment rows than
\* earned rows for the task and user.
C30_UndoAppliedOnce ==
  /\ \A i \in Ids : audit[i].debited <= audit[i].credited
  /\ \A u \in Users, t \in Tasks :
       Cardinality(AdjustmentRows(u, t)) <= Cardinality(EarnedRows(u, t))

\* The starting state of the undo race, which a create leaves behind.
StartOfUndoRace ==
  /\ \E v \in DollarValues \ {0} : Credited(v)
  /\ \A p \in Callers : pc[p] = "idle"

CanUndoDone(p) == pc[p] = "done" /\ call[p].op = "canUndo"

\* C31: canUndo(id) returns true exactly when the completion exists and at
\* most UNDO_WINDOW_MINUTES have elapsed since completedAt, which is
\* exactly when undo(id) at that instant fails neither as not found nor as
\* expired; canUndo changes no state.
C31_CanUndoAgreesWithUndo ==
  \A p \in Callers :
    (CanUndoDone(p) /\ pre[p].valid)
      => /\ call[p].flag
              <=> \E c \in completions :
                    c.id = call[p].id /\ clock - c.completedAt <= UNDO_WINDOW_MINUTES
         /\ call[p].flag
              <=> /\ FindById(call[p].id) # NoRow
                  /\ ~WindowExpired(clock, FindById(call[p].id).completedAt)
         /\ Untouched(p)

\* C31 witness: canUndo has returned true in the last minute of the window.
C31_Witness ==
  \E p \in Callers :
    /\ CanUndoDone(p) /\ call[p].flag
    /\ clock - call[p].completion.completedAt = UNDO_WINDOW_MINUTES

\* canUndo has returned false for a completion past its window.
C31_WitnessExpired ==
  \E p \in Callers :
    /\ CanUndoDone(p) /\ ~call[p].flag /\ call[p].completion # NoRow

\* C32: after any sequence of create, undo and Task.update calls starting
\* from empty balances, no user's balance is negative.
C32_BalanceNeverNegative ==
  (\A p \in Callers : pc[p] = "idle") => \A u \in Users : Balance(u) >= 0

C33_WitnessUserTasks ==
  /\ http.endpoint = "GET /api/tasks/user/:userId" /\ http.status = 200
  /\ http.body = {}
  /\ \E t \in taskRows :
       /\ [task |-> t.id, user |-> http.userId] \in task_assignments
       /\ t.household # Authenticated(http.header).householdId

\* C34: getTasksForUser(user, date) returns exactly the tasks that are
\* assigned to the user and for which isScheduledForDate(task, date) is
\* true: none unassigned, none off schedule, none missing.
C34_AssignedAndScheduled ==
  fn.op = "getTasksForUser"
    => /\ {t.id : t \in fn.rows}
            = {r.id : r \in {x \in taskRows :
                               /\ \E a \in task_assignments :
                                    a.task = x.id /\ a.user = fn.user
                               /\ IsScheduledForDate(x, fn.date)}}
       /\ \A t \in fn.rows : \E r \in taskRows : FormatTask(r) = t

\* C34 witness: of two tasks assigned to the user, one is returned and the
\* one off schedule on the date is not.
C34_Witness ==
  /\ fn.op = "getTasksForUser"
  /\ Cardinality(fn.rows) = 1
  /\ Cardinality({a \in task_assignments : a.user = fn.user}) = 2

AssignDone(p) == pc[p] = "done" /\ call[p].op = "assignUsers"

\* Task.getAssignedUsers(taskId)
AssignedUsers(taskId) == {a.user : a \in {x \in task_assignments : x.task = taskId}}

\* C35: once assignUsers and every concurrent assignUsers call for the
\* task have finished, the task's assigned users are exactly the set
\* passed to one of the calls, never a mixture, and the assignments of
\* other tasks are as they were.
C35_AssignReplaces ==
  (/\ \E p \in Callers : AssignDone(p)
   /\ \A p \in Callers : pc[p] \in {"idle", "done"}
   /\ TaskById(1) # {})
  => /\ \E p \in Callers : AssignDone(p) /\ AssignedUsers(1) = call[p].users
     /\ {a \in task_assignments : a.task # 1}
          = {a \in call["c1"].before : a.task # 1}

\* The set of the key that is in force, if there is one
LastSet(key) == {r \in cacheSets : r.key = key}

\* C36: get(key) returns the data of the most recent set of the key exactly
\* while no more than ttl seconds have passed since it and the key was not
\* deleted or invalidated, and null otherwise; an entry whose expiry time
\* has passed is never returned and is removed from the store by the get
\* that meets it.
C36_GetWithinTtl ==
  cacheCall.op = "get" =>
    /\ \A r \in LastSet(cacheCall.key) :
         cacheCall.result = IF cacheCall.at - r.at <= r.ttl * MsPerSecond
                              THEN r.data ELSE NoData
    /\ LastSet(cacheCall.key) = {} => cacheCall.result = NoData
    /\ \A i \in 1..Len(cacheCall.before) :
         (cacheCall.before[i].key = cacheCall.key /\ cacheCall.before[i].expiry < cacheCall.at)
           => /\ cacheCall.result = NoData
              /\ cacheCall.key \notin CacheKeys(cache)

\* A get at the very end of the ttl returns the data.
C36_Witness ==
  /\ cacheCall.op = "get"
  /\ cacheCall.result \in CacheData
  /\ \E r \in LastSet(cacheCall.key) :
       r.ttl > 0 /\ cacheCall.at - r.at = r.ttl * MsPerSecond

\* A get meets an expired entry and removes it.
C36_WitnessExpired ==
  /\ cacheCall.op = "get"
  /\ cacheCall.key \in CacheKeys(cacheCall.before)
  /\ cacheCall.key \notin CacheKeys(cache)

Entries(c) == {c[i] : i \in 1..Len(c)}

HasPrefix(key, prefix) == \E n \in 0..Len(key) : SubSeq(key, 1, n) = prefix

\* C37: invalidatePrefix(prefix) removes every entry whose key starts with
\* the prefix and leaves every other entry, its key, data and expiry, as
\* it was.
C37_InvalidatePrefixFrame ==
  cacheCall.op = "invalidatePrefix" =>
    /\ Entries(cache) = {e \in Entries(cacheCall.before) : ~HasPrefix(e.key, cacheCall.key)}
    /\ Cardinality(Entries(cache)) = Len(cache)

\* A prefix shorter than the keys removes some entries and leaves others.
C37_Witness ==
  /\ cacheCall.op = "invalidatePrefix"
  /\ cacheCall.key = <<"dashboard">>
  /\ \E e \in Entries(cacheCall.before) : e.key = DashboardKey(<<"2">>)
  /\ Entries(cache) # {}
  /\ Len(cache) < Len(cacheCall.before)

\* C38: invalidateUser(u) removes the dashboard entries of user u only:
\* the entry cacheDashboard stored for any other user id v, also one of
\* which u is a string prefix, is still present afterwards.
C38_InvalidateUserOnly ==
  cacheCall.op = "invalidateUser" =>
    \A v \in DashboardUsers \ {cacheCall.key} :
      \A e \in Entries(cacheCall.before) :
        e.key = DashboardKey(v) => e \in Entries(cache)

\* The key of a request to a cached route, written out
RouteKey(req) ==
  IF req.mw = "cacheUserList" THEN <<"users">>
  ELSE IF req.mw = "cacheDashboard"
    THEN IF req.userId = Undefined THEN <<"dashboard">>
         ELSE <<"dashboard", ":", "userId", ":">> \o req.userId
    ELSE IF req.householdId = Undefined THEN <<"family-dashboard">>
         ELSE <<"family-dashboard", ":", "householdId", ":">> \o req.householdId

\* C39: cacheMiddleware stores a response body only for a GET request whose
\* response status is 2xx; it serves a stored body as a HIT, without running
\* the route handler, only to a GET request whose generated key is the key
\* the body is stored under, and only before the entry expires; a request
\* of another method is passed through and neither reads nor writes the
\* cache.
C39_CacheOnlyGet2xx ==
  [][cacheCall'.n > cacheCall.n \/ cacheCall'.req # cacheCall.req =>
       LET req == cacheCall'.req IN
         /\ (cacheCall'.op = "res.json" /\ cache' # cache)
              => /\ req.method = "GET"
                 /\ req.status \in 200..299
                 /\ RouteKey(req) \in CacheKeys(cache')
                 /\ MapGet(cache', RouteKey(req)).data = cacheCall'.result
                 /\ \A e \in Entries(cache') :
                      e.key # RouteKey(req) => e \in Entries(cache)
         /\ req.hit
              => /\ cacheCall'.op = "cacheMiddleware"
                 /\ req.method = "GET"
                 /\ \E e \in Entries(cache) :
                      /\ e.key = RouteKey(req)
                      /\ e.data = cacheCall'.result
                      /\ cacheClock <= e.expiry
                 /\ requests' = requests
         /\ (cacheCall'.op \in {"cacheMiddleware", "res.json", "res.end"}
               /\ req.method # "GET")
              => /\ cache' = cache
                 /\ ~req.hit
                 /\ cacheCall'.op = "cacheMiddleware"
                      => \E r \in requests' \ requests : r.req = req /\ ~r.wrapped]_vars

\* A GET is served from the cache at the end of the entry's ttl.
C39_Witness ==
  /\ cacheCall.op = "cacheMiddleware"
  /\ cacheCall.req.hit
  /\ cacheCall.at > 0
  /\ cacheCall.result \in CacheData

\* A response that is not 2xx passed the wrapper and was not stored.
C39_WitnessNotStored ==
  /\ cacheCall.op = "res.json"
  /\ cacheCall.req.method = "GET"
  /\ cacheCall.req.status = 404
  /\ cacheCall.key \notin CacheKeys(cache)

\* C40: globalSetup terminates for every sequence of server responses: it
\* finds the server ready or throws after at most 30 attempts, so it never
\* makes a 31st page.goto and is not running any more after the 30th.
C40_SetupEndsWithinMaxRetries ==
  /\ setup.attempts <= maxRetries
  /\ setup.attempts = maxRetries => setup.pc \in {"ready", "thrown"}

====
